---- MODULE Spec2Model ----
(***************************************************************************)
(* The tick engine of the evolutionary agent simulation                    *)
(* (src/src/simulation.py, src/src/agent_components/*.py) and its          *)
(* population balancer (src/src/population_balancer.py).                   *)
(*                                                                         *)
(* Real numbers (energy, move cost, the EMAs, the feedback factors) are    *)
(* fixed-point integers in thousandths: 1.0 is Milli.                      *)
(*                                                                         *)
(* The specifications share the variables:                                 *)
(*   Spec    - Simulation.run, one action per phase of a tick, on a small  *)
(*             world with a few agents;                                    *)
(*   BalSpec - PopulationBalancer.balance called on populations of the     *)
(*             program's real sizes and on enumerated knob / EMA values;   *)
(*   CleanSpec - the tick engine with a nearly full recent-death buffer;   *)
(*   SenseSpec, EncSpec, IdSpec, MoveSpec, FoodSpec, BatchSpec - single    *)
(*             operations of the program driven on their own, with the     *)
(*             engine at rest.                                             *)
(***************************************************************************)
EXTENDS Integers, Sequences, FiniteSets, TLC

VARIABLES
    agents,          \* Simulation.agents: the live set, a list of agent records
    food_set,        \* Simulation.food_set: cells holding food
    tick,            \* Simulation.tick
    food_zone_idx,   \* Simulation.food_zone_idx (0-based)
    trace_map,       \* Simulation.trace_map: cell -> tick last vacated
    agent_grid,      \* run(): agent_grid of the tick, cell -> list of agent indices
    active_idx,      \* run(): active_idx, the decision batch of the tick
    dead,            \* run(): dead, the agents removed by the last cleanup
    new_agents,      \* run(): new_agents, the children of the last reproduction
    deaths,          \* Simulation.deaths: cause -> list of ages
    genome_stats,    \* Simulation.genome_stats: genome signature -> list of (age, offspring)
    recent_deaths,   \* Simulation.recent_deaths: deque(maxlen=2000) of causes
    knobs,           \* _MAX_NEIGHBORS, _FOOD_COUNT, _MOVE_COST, _IDLE_COST, _MAX_POP
    ema,             \* ema_crowd, ema_energy, ema_old_age
    deadlock_ticks,  \* PopulationBalancer._deadlock_ticks
    recovered,       \* whether the last balance() call took the deadlock-breaker branch
    calls,           \* number of balance() calls made (BalSpec)
    pc,              \* the phase of the tick that runs next
    probe            \* one Agent object driven through its methods outside run()

\* the state of the Simulation object and of its run() loop
engine_vars == <<agents, food_set, tick, food_zone_idx, trace_map, agent_grid,
                 active_idx, dead, new_agents, deaths, genome_stats, recent_deaths,
                 knobs, ema, deadlock_ticks, recovered, calls, pc>>

vars == <<engine_vars, probe>>

---------------------------------------------------------------------------
(* Bounds of the model *)

\* world width in cells (the program: 1720 // 16 = 107)
world_w == 2
\* world height in cells (the program: 1320 // 16 = 82)
world_h == 2
\* number of seeded agents (the program: 160)
AGENT_COUNT == 2
\* number of ticks run from the first state
MaxTick == 2
\* number of balance() calls run in BalSpec
MaxCalls == 2

---------------------------------------------------------------------------
(* Program constants *)

\* fixed-point unit: the value 1.0
Milli == 1000

ENERGY_START == 45 * Milli
ENERGY_PER_FOOD == 60 * Milli
ENERGY_TO_REPRODUCE == 120 * Milli
ENERGY_AFTER_REPRO == 45 * Milli
MAX_AGENT_AGE == 1500
SENSOR_RADIUS_MIN == 0
SENSOR_RADIUS_MAX == 20
MIN_POP == 40
MAX_POP == 800
TARGET_CROWD_RATIO == Milli \div 4
TARGET_ENERGY_RATIO == Milli \div 4
food_zone_duration == 1000
RECENT_DEATHS_MAXLEN == 2000

\* food_zones, in quarters of the world: (x0, x1, y0, y1)
food_zones == << <<0, 2, 0, 4>>, <<0, 4, 0, 4>>, <<2, 4, 0, 4>>, <<1, 3, 1, 3>> >>

\* PopulationBalancer class constants
MAXN_MIN == 8
MAXN_MAX == 30
FOOD_MIN == 300
FOOD_MAX == 1200
MOVE_MIN == (8 * Milli) \div 10
MOVE_MAX == (25 * Milli) \div 10
POP_MIN == 200
POP_MAX == 2000
DEADLOCK_LIMIT == 80
\* len(sim.recent_deaths) < 50: the data gate of balance()
MIN_DEATH_RECORDS == 50

\* death_reason values; None is the value before any cause is set
None == "None"
Causes == {"crowd", "old_age", "energy", "cull"}

---------------------------------------------------------------------------
(* Helpers *)

Min(a, b) == IF a < b THEN a ELSE b
Max(a, b) == IF a > b THEN a ELSE b

\* utils.clamp
clamp(val, low, high) == Max(low, Min(high, val))

Cells == (0 .. world_w - 1) \X (0 .. world_h - 1)

Pos(a) == <<a.x, a.y>>

Indices(s) == 1 .. Len(s)

\* the positions of a list of agents: {(a.x, a.y) for a in agents}
Positions(ags) == {Pos(ags[i]) : i \in Indices(ags)}

\* the indices of list s, in order: what enumerate(s) runs through
IndexSeq(s) == [i \in Indices(s) |-> i]

\* Agent.__init__ / AgentState.__init__: a new agent
\* cause_tick and scan_tick record when death_reason was last assigned and
\* when AgentSenses.update last ran (-1: never)
NewAgent(x, y, energy, food_radius) ==
    [x |-> x, y |-> y, energy |-> energy, age |-> 0, offspring_count |-> 0,
     death_reason |-> None, cause_tick |-> -1,
     food_radius |-> food_radius, sense_agents |-> 0, scan_tick |-> -1]

---------------------------------------------------------------------------
(* Food zones and food spawning *)

\* Simulation._current_food_zone: (x0, x1, y0, y1) = int(fraction * world size)
CurrentFoodZone(idx) ==
    LET z == food_zones[idx + 1]
    IN  <<(z[1] * world_w) \div 4, (z[2] * world_w) \div 4,
          (z[3] * world_h) \div 4, (z[4] * world_h) \div 4>>

\* the cells random_pos_in_zone can return: [x0, x1) x [y0, y1)
ZoneCells(zone) == (zone[1] .. zone[2] - 1) \X (zone[3] .. zone[4] - 1)

\* a search that puts food on any cell without an agent
SpawnFoodAnywhere(food, desired_count, zone, taken) ==
    {food} \cup {food \cup {c} : c \in Cells \ taken}

\* utils.spawn_food: the food sets the bounded random search can end with.
\* Every try draws a zone cell; a free cell is added while len(food_set) is
\* below desired_count, a cell holding food or an agent only uses up a try.
\* The search may stop short of desired_count once the tries are used up, which
\* takes an occupied zone cell for the failing tries to hit.
SpawnFoodOutcomes(food, desired_count, zone, taken) ==
    LET cells == ZoneCells(zone)
        free  == cells \ (food \cup taken)
    IN  { food \cup S : S \in
            { S \in SUBSET free :
                /\ S # {} => Cardinality(food \cup S) <= desired_count
                /\ \/ Cardinality(food \cup S) >= desired_count
                   \/ cells \cap (food \cup S \cup taken) # {} } }

---------------------------------------------------------------------------
(* Spatial index and sensing *)

\* a spatial index that holds no agent
EmptyAgentGrid(ags) == [c \in Cells |-> <<>>]

\* run(): agent_grid[(a.x, a.y)].append(a) for every agent of the live set
BuildAgentGrid(ags) ==
    [c \in Cells |-> SelectSeq(IndexSeq(ags), LAMBDA i : Pos(ags[i]) = c)]

\* how many offsets d in -r..r are clamped onto coordinate t
ClampHits(p, t, r, hi) == Cardinality({d \in -r .. r : clamp(p + d, 0, hi) = t})

\* the sum of f[c] over the cells c of S
RECURSIVE SumCells(_, _)
SumCells(S, f) ==
    IF S = {} THEN 0
    ELSE LET c == CHOOSE c \in S : TRUE IN f[c] + SumCells(S \ {c}, f)

\* AgentSenses.update: sense_agents, the sum of len(agents_here) over the
\* (2*fr+1)^2 offsets of the scan window, each clamped into the world
ScanAgents(a, grid) ==
    SumCells(Cells, [c \in Cells |->
        ClampHits(a.x, c[1], a.food_radius, world_w - 1)
        * ClampHits(a.y, c[2], a.food_radius, world_h - 1)
        * Len(grid[c])])

\* Agent.sense: one sensory scan of agent a at tick t
Sense(a, grid, t) ==
    [a EXCEPT !.sense_agents = ScanAgents(a, grid), !.scan_tick = t]

\* a batch that holds every agent of the live set
ActiveAll(ags) == IndexSeq(ags)

\* run(): active_idx, the indices of the agents with energy > 0
ActiveIdx(ags) ==
    SelectSeq(IndexSeq(ags), LAMBDA i : ags[i].energy > 0)

---------------------------------------------------------------------------
(* The first states of Spec *)

\* Simulation.__init__: the resource knobs
InitKnobs ==
    [max_neighbors |-> 15, food_count |-> 600, move_cost |-> Milli,
     idle_cost |-> (6 * Milli) \div 10, max_pop |-> MAX_POP]

\* Simulation.__init__: ema_crowd, ema_energy, ema_old_age
InitEma == [crowd |-> 0, energy |-> 0, old_age |-> 0]

\* Simulation.deaths is a defaultdict(list): every key starts as the empty list
DeathKeys == Causes \cup {None, "all"}
InitDeaths == [k \in DeathKeys |-> <<>>]

\* Simulation.genome_stats is a defaultdict(list) keyed by the genome signature
\* (color, food_radius, agent_radius, personality); of these the agents of the
\* model carry the food radius
GenomeKey(a) == a.food_radius
InitGenomeStats == [g \in SENSOR_RADIUS_MIN .. SENSOR_RADIUS_MAX |-> <<>>]

\* the sensing radii drawn for seeded agents: random.randint(*SENSOR_RADIUS_RANGE)
StartRadii == {1, 2}

\* Simulation.__init__: count agents, each at random_pos_in_zone of zone 0,
\* positions drawn independently
SeedAgents(count) ==
    LET cells == ZoneCells(CurrentFoodZone(0))
    IN  { [i \in 1 .. count |-> NewAgent(p[i][1], p[i][2], ENERGY_START, r[i])] :
            p \in [1 .. count -> cells], r \in [1 .. count -> StartRadii] }

\* The tick at which a run of the model may also start: a tick boundary late in a
\* run, right after a balance() call (tick 1500) that passed the data gate.  The
\* zone index follows the rotations made at ticks 0 and 1000.
LateTick == MAX_AGENT_AGE + 1
LateZoneIdx == (1 + (LateTick - 1) \div food_zone_duration) % Len(food_zones)

\* The vitals agents can have at such a tick boundary: (energy, age,
\* death_reason, cause_tick).  After cleanup and reproduction every agent has
\* energy > 0 and age < MAX_AGENT_AGE and no cause, except the agents that
\* cull_agents marked in the balance() call of the tick before.
LateVitals ==
    { <<(6 * Milli) \div 10, 800, None, -1>>,           \* one idle step from energy 0
      <<ENERGY_START, MAX_AGENT_AGE - 1, None, -1>>,     \* reaches the maximum age
      <<ENERGY_PER_FOOD + Milli, 100, None, -1>>,        \* a move and a meal from 120
      <<ENERGY_PER_FOOD, 100, None, -1>>,                \* a move and a meal from 119
      <<-Milli, 900, "cull", LateTick - 1>> }            \* culled at tick 1500

\* the live sets of count agents at such a tick boundary
LateAgents(count) ==
    { [i \in 1 .. count |->
          [NewAgent(p[i][1], p[i][2], v[i][1], r[i]) EXCEPT
              !.age = v[i][2], !.death_reason = v[i][3], !.cause_tick = v[i][4]]] :
        p \in [1 .. count -> Cells], v \in [1 .. count -> LateVitals],
        r \in [1 .. count -> StartRadii] }

\* A tick at which a run of the model may also start: a tick whose number is a
\* multiple of 10, with MIN_DEATH_RECORDS deaths on record, so that the
\* balance() call at its end passes the data gate.
DueTick == LateTick + 9
DueZoneIdx == (1 + (DueTick - 1) \div food_zone_duration) % Len(food_zones)

\* the live sets of count agents at that tick boundary: the balance() call
\* before it was ten ticks earlier, so no agent is marked
DueAgents(count) ==
    { ags \in LateAgents(count) : \A i \in 1 .. count : ags[i].energy > 0 }

\* a list holding n times the same entry
Repeat(v, n) == [i \in 1 .. n |-> v]

\* trace_map = {}: no cell has an entry (NoTrace stands for an absent key)
NoTrace == -1
EmptyTrace == [c \in Cells |-> NoTrace]

\* no Agent object is driven outside run()
NoProbe == [kind |-> "none"]

\* what the first states share
InitCommon ==
    /\ probe = NoProbe
    /\ food_set = {}
    /\ trace_map = EmptyTrace
    /\ agent_grid = [c \in Cells |-> <<>>]
    /\ active_idx = <<>>
    /\ dead = <<>>
    /\ new_agents = <<>>
    /\ knobs = InitKnobs
    /\ ema = InitEma
    /\ deadlock_ticks = 0
    /\ recovered = FALSE
    /\ calls = 0
    /\ pc = "sense"

\* the statistics after n agents of food radius 1 and no offspring have died of
\* old age and been removed: deaths, genome_stats and recent_deaths
StatsAfter(n) ==
    [deaths |-> [InitDeaths EXCEPT !["old_age"] = Repeat(MAX_AGENT_AGE, n),
                                   !["all"] = Repeat(MAX_AGENT_AGE, n)],
     genome |-> [InitGenomeStats EXCEPT ![1] = Repeat(<<MAX_AGENT_AGE, 0>>, n)],
     recent |-> Repeat("old_age", Min(n, RECENT_DEATHS_MAXLEN))]
StatsAre(st) ==
    /\ deaths = st.deaths
    /\ genome_stats = st.genome
    /\ recent_deaths = st.recent

\* the first states with no death on record
InitRest == InitCommon /\ StatsAre(StatsAfter(0))

\* Simulation.__init__: the state after construction
SeedInit ==
    /\ agents \in SeedAgents(AGENT_COUNT)
    /\ tick = 0
    /\ food_zone_idx = 0
    /\ InitRest

\* a tick boundary late in the run
LateInit ==
    /\ agents \in LateAgents(AGENT_COUNT)
    /\ tick = LateTick
    /\ food_zone_idx = LateZoneIdx
    /\ InitCommon
    /\ StatsAre(StatsAfter(MIN_DEATH_RECORDS))

\* a tick boundary before a balance() call that passes the data gate
DueInit ==
    /\ agents \in DueAgents(AGENT_COUNT)
    /\ tick = DueTick
    /\ food_zone_idx = DueZoneIdx
    /\ InitCommon
    /\ StatsAre(StatsAfter(MIN_DEATH_RECORDS))

Init == SeedInit \/ LateInit \/ DueInit

\* A tick at which a run of the model may also start: the tick before the third
\* rotation of the food zone, with food in the zone that is about to end.
RotTick == 2 * food_zone_duration - 1
RotZoneIdx == (1 + (RotTick - 1) \div food_zone_duration) % Len(food_zones)

\* the tick the run started at, and the bound on the ticks run from it
FirstTick ==
    IF tick >= RotTick THEN RotTick
    ELSE IF tick >= DueTick THEN DueTick ELSE IF tick >= LateTick THEN LateTick ELSE 0

---------------------------------------------------------------------------
(* Simulation.run, lines 309-326: zone rotation, food, spatial index, sensing,
   decision batch *)

SenseAll(ags, grid, t) == [i \in Indices(ags) |-> Sense(ags[i], grid, t)]

SpawnAndSense ==
    /\ pc = "sense"
    /\ tick < FirstTick + MaxTick
    /\ LET rotate == tick % food_zone_duration = 0
           idx    == IF rotate THEN (food_zone_idx + 1) % Len(food_zones)
                     ELSE food_zone_idx
           food0  == IF rotate THEN {} ELSE food_set
           grid   == BuildAgentGrid(agents)
       IN  /\ food_zone_idx' = idx
           /\ food_set' \in SpawnFoodOutcomes(food0, knobs.food_count,
                                              CurrentFoodZone(idx), Positions(agents))
           /\ agent_grid' = grid
           /\ agents' = SenseAll(agents, grid, tick)
           /\ active_idx' = ActiveIdx(agents)
    /\ pc' = "move"
    /\ UNCHANGED <<probe, genome_stats>>
    /\ UNCHANGED <<tick, trace_map, dead, new_agents, deaths, recent_deaths, knobs,
                   ema, deadlock_ticks, recovered, calls>>

---------------------------------------------------------------------------
(* Simulation.run, lines 327-345: the decision batch and move resolution *)

\* the fixed action set: np.random.choice(4, p=probs[i])
Actions == 0 .. 3

\* AgentBody._decode_action: directions[action], a Python list index
directions == << <<0, -1>>, <<0, 1>>, <<-1, 0>>, <<1, 0>> >>
DecodeAction(action) ==
    IF action >= 0 /\ action < Len(directions) THEN directions[action + 1]
    ELSE IF action < 0 /\ -action <= Len(directions)
         THEN directions[Len(directions) + action + 1]
    ELSE "IndexError"

\* the target cell as it would be without the two clamps
MoveTargetUnclamped(a, action) ==
    LET d == DecodeAction(action)
    IN  <<a.x + d[1], a.y + d[2]>>

\* AgentBody.apply_move, the clamped target cell
MoveTarget(a, action) ==
    LET d == DecodeAction(action)
    IN  <<clamp(a.x + d[1], 0, world_w - 1), clamp(a.y + d[2], 0, world_h - 1)>>

\* an idle test that looks at the agent's own cell only
IsIdleOwnCellOnly(a, action, taken) == MoveTarget(a, action) = Pos(a)

\* AgentBody.apply_move: whether the step is an idle step
IsIdle(a, action, taken) ==
    MoveTarget(a, action) = Pos(a) \/ MoveTarget(a, action) \in taken

\* AgentBody.apply_move: the agent after the step
ApplyMove(a, action, taken, k) ==
    IF IsIdle(a, action, taken)
    THEN [a EXCEPT !.energy = a.energy - k.idle_cost]
    ELSE [a EXCEPT !.x = MoveTarget(a, action)[1], !.y = MoveTarget(a, action)[2],
                   !.energy = a.energy - k.move_cost]

\* apply_move as it would be if it wrote no trace
ApplyTraceNever(tm, a, action, taken, t) == tm

\* AgentBody.apply_move: trace_map[(x, y)] = tick on a committed move
ApplyTrace(tm, a, action, taken, t) ==
    IF IsIdle(a, action, taken) THEN tm
    ELSE [tm EXCEPT ![Pos(a)] = t]

\* run(), lines 341-345: the batch in order; st = [agents, taken, trace],
\* acts[n] the action sampled for the n-th agent of the batch
RECURSIVE MoveAll(_, _, _, _, _, _)
MoveAll(st, active, acts, n, k, t) ==
    IF n > Len(active) THEN st
    ELSE LET i     == active[n]
             a     == st.agents[i]
             moved == ApplyMove(a, acts[n], st.taken, k)
         IN  MoveAll([agents |-> [st.agents EXCEPT ![i] = moved],
                      taken  |-> st.taken \cup {Pos(moved)},
                      trace  |-> ApplyTrace(st.trace, a, acts[n], st.taken, t)],
                     active, acts, n + 1, k, t)

DecideAndMove ==
    /\ pc = "move"
    /\ IF active_idx = <<>>
       THEN UNCHANGED <<agents, trace_map>>
       ELSE \E acts \in [Indices(active_idx) -> Actions] :
              LET st == MoveAll([agents |-> agents, taken |-> Positions(agents),
                                 trace |-> EmptyTrace],
                                active_idx, acts, 1, knobs, tick)
              IN  /\ agents' = st.agents
                  /\ trace_map' = st.trace
    /\ pc' = "step"
    /\ UNCHANGED <<probe, genome_stats>>
    /\ UNCHANGED <<food_set, tick, food_zone_idx, agent_grid, active_idx, dead,
                   new_agents, deaths, recent_deaths, knobs, ema, deadlock_ticks,
                   recovered, calls>>

---------------------------------------------------------------------------
(* Simulation.run, lines 346-349: eating, aging, death evaluation *)

\* AgentBody.eat: the agent after eating from food
Eat(a, food) ==
    IF Pos(a) \in food THEN [a EXCEPT !.energy = a.energy + ENERGY_PER_FOOD] ELSE a

\* eat() as it would be if it left the food where it is
EatFoodKept(a, food) == food

\* AgentBody.eat: food.remove(pos)
EatFood(a, food) == food \ {Pos(a)}

\* step() as it would be if 'crowd' and 'old_age' left the energy alone
StepKeepsEnergy(a, k, t) ==
    LET b == [a EXCEPT !.age = a.age + 1]
    IN  IF k.max_neighbors > 0 /\ b.sense_agents > k.max_neighbors
        THEN [b EXCEPT !.death_reason = "crowd", !.cause_tick = t]
        ELSE IF b.age >= MAX_AGENT_AGE
        THEN [b EXCEPT !.death_reason = "old_age", !.cause_tick = t]
        ELSE IF b.energy <= 0
        THEN [b EXCEPT !.death_reason = "energy", !.cause_tick = t]
        ELSE b

\* step() as it would be with the age tested before the crowd
StepAgeFirst(a, k, t) ==
    LET b == [a EXCEPT !.age = a.age + 1]
    IN  IF b.age >= MAX_AGENT_AGE
        THEN [b EXCEPT !.death_reason = "old_age", !.cause_tick = t, !.energy = -Milli]
        ELSE IF k.max_neighbors > 0 /\ b.sense_agents > k.max_neighbors
        THEN [b EXCEPT !.death_reason = "crowd", !.cause_tick = t, !.energy = -Milli]
        ELSE IF b.energy <= 0
        THEN [b EXCEPT !.death_reason = "energy", !.cause_tick = t]
        ELSE b

\* AgentBody.step: age, then the death conditions in order
Step(a, k, t) ==
    LET b == [a EXCEPT !.age = a.age + 1]
    IN  IF k.max_neighbors > 0 /\ b.sense_agents > k.max_neighbors
        THEN [b EXCEPT !.death_reason = "crowd", !.cause_tick = t, !.energy = -Milli]
        ELSE IF b.age >= MAX_AGENT_AGE
        THEN [b EXCEPT !.death_reason = "old_age", !.cause_tick = t, !.energy = -Milli]
        ELSE IF b.energy <= 0
        THEN [b EXCEPT !.death_reason = "energy", !.cause_tick = t]
        ELSE b

\* run(), lines 346-349: for a in agents: if a.energy > 0: a.eat(food); a.step()
RECURSIVE EatStepAll(_, _, _, _)
EatStepAll(st, i, k, t) ==
    IF i > Len(st.agents) THEN st
    ELSE LET a == st.agents[i]
         IN  IF a.energy > 0
             THEN EatStepAll([agents |-> [st.agents EXCEPT
                                             ![i] = Step(Eat(a, st.food), k, t)],
                              food   |-> EatFood(a, st.food)],
                             i + 1, k, t)
             ELSE EatStepAll(st, i + 1, k, t)

EatAndStep ==
    /\ pc = "step"
    /\ LET st == EatStepAll([agents |-> agents, food |-> food_set], 1, knobs, tick)
       IN  /\ agents' = st.agents
           /\ food_set' = st.food
    /\ pc' = "cleanup"
    /\ UNCHANGED <<probe, genome_stats>>
    /\ UNCHANGED <<tick, food_zone_idx, trace_map, agent_grid, active_idx, dead,
                   new_agents, deaths, recent_deaths, knobs, ema, deadlock_ticks,
                   recovered, calls>>

---------------------------------------------------------------------------
(* Simulation.run, lines 350-357: death bookkeeping and cleanup *)

\* a list that is never trimmed
DequeUnbounded(q, v, maxlen) == Append(q, v)

\* collections.deque(maxlen=...).append
DequeAppend(q, v, maxlen) ==
    IF Len(q) >= maxlen THEN Tail(q) \o <<v>> ELSE Append(q, v)

\* run(), lines 351-356, for the dead agents in order; st = [deaths, genome,
\* recent]
RECURSIVE RecordDeaths(_, _, _)
RecordDeaths(st, dd, i) ==
    IF i > Len(dd) THEN st
    ELSE LET a  == dd[i]
             g1 == [st.genome EXCEPT
                       ![GenomeKey(a)] = Append(@, <<a.age, a.offspring_count>>)]
             d1 == [st.deaths EXCEPT ![a.death_reason] = Append(@, a.age)]
             d2 == [d1 EXCEPT !["all"] = Append(@, a.age)]
         IN  RecordDeaths([deaths |-> d2, genome |-> g1,
                           recent |-> DequeAppend(st.recent, a.death_reason,
                                                  RECENT_DEATHS_MAXLEN)],
                          dd, i + 1)

\* run(), line 350: dead = [a for a in self.agents if a.energy <= 0]
DeadOf(ags) == SelectSeq(ags, LAMBDA a : a.energy <= 0)

\* a cleanup that keeps the agents without energy in the live set
SurvivorsAndDead(ags) == ags

\* run(), line 357: self.agents = [a for a in self.agents if a.energy > 0]
Survivors(ags) == SelectSeq(ags, LAMBDA a : a.energy > 0)

Cleanup ==
    /\ pc = "cleanup"
    /\ dead' = DeadOf(agents)
    /\ LET st == RecordDeaths([deaths |-> deaths, genome |-> genome_stats,
                               recent |-> recent_deaths],
                              DeadOf(agents), 1)
       IN  /\ deaths' = st.deaths
           /\ genome_stats' = st.genome
           /\ recent_deaths' = st.recent
    /\ agents' = Survivors(agents)
    /\ pc' = "repro"
    /\ UNCHANGED probe
    /\ UNCHANGED <<food_set, tick, food_zone_idx, trace_map, agent_grid, active_idx,
                   new_agents, knobs, ema, deadlock_ticks, recovered, calls>>

---------------------------------------------------------------------------
(* Simulation.run, lines 358-375: reproduction *)

\* AgentBody.can_reproduce
CanReproduce(a) == a.energy >= ENERGY_TO_REPRODUCE

\* run(), lines 364-368: the qualifying adjacent cells of a parent
AdjacentOffsets == {<<-1, 0>>, <<1, 0>>, <<0, -1>>, <<0, 1>>}
EmptyCells(a, taken, food) ==
    { c \in { <<clamp(a.x + d[1], 0, world_w - 1), clamp(a.y + d[2], 0, world_h - 1)>> :
                d \in AdjacentOffsets } :
        c \notin taken /\ c \notin food }

\* AgentBody.reproduce, mutate_radius: clamp(value + random.randint(-1, 1), 0, 20)
MutatedRadii(value) ==
    { clamp(value + d, SENSOR_RADIUS_MIN, SENSOR_RADIUS_MAX) : d \in -1 .. 1 }

\* reproduce() as it would be if it did not count the offspring
ParentKeepsCounter(a) == [a EXCEPT !.energy = ENERGY_AFTER_REPRO]

\* AgentBody.reproduce: the parent afterwards
ParentAfter(a) ==
    [a EXCEPT !.energy = ENERGY_AFTER_REPRO, !.offspring_count = a.offspring_count + 1]

\* AgentBody.reproduce and run() line 372: the child, placed on cell c
Child(a, c, radius) == NewAgent(c[1], c[2], ENERGY_AFTER_REPRO, radius)

\* run() as it would be if it did not reserve the cell of a child
TakenUnchanged(taken, c) == taken

\* run(), line 373: taken.add((nx, ny))
TakenAfter(taken, c) == taken \cup {c}

\* run(), lines 361-374 from agent i on: the possible results, st = [agents, taken, kids]
RECURSIVE ReproAll(_, _, _)
ReproAll(st, i, food) ==
    IF i > Len(st.agents) THEN {st}
    ELSE LET a     == st.agents[i]
             empty == EmptyCells(a, st.taken, food)
         IN  IF ~CanReproduce(a) \/ empty = {}
             THEN ReproAll(st, i + 1, food)
             ELSE UNION { ReproAll([agents |-> [st.agents EXCEPT ![i] = ParentAfter(a)],
                                    taken  |-> TakenAfter(st.taken, c),
                                    kids   |-> Append(st.kids, Child(a, c, r))],
                                   i + 1, food) :
                            c \in empty, r \in MutatedRadii(a.food_radius) }

Reproduce ==
    /\ pc = "repro"
    /\ \E st \in ReproAll([agents |-> agents, taken |-> Positions(agents),
                           kids |-> <<>>], 1, food_set) :
          /\ agents' = st.agents \o st.kids
          /\ new_agents' = st.kids
    /\ pc' = "balance"
    /\ UNCHANGED <<probe, genome_stats>>
    /\ UNCHANGED <<food_set, tick, food_zone_idx, trace_map, agent_grid, active_idx,
                   dead, deaths, recent_deaths, knobs, ema, deadlock_ticks,
                   recovered, calls>>

---------------------------------------------------------------------------
(* PopulationBalancer.balance and Simulation.cull_agents *)

\* Python literals a death record is compared with
PyStr(v) == [type |-> "str", v |-> v]
PyTuple(v) == [type |-> "tuple", v |-> v]

\* d == literal, for a death record d (a str, or None): equal only to a str
\* literal of the same text
RecordEquals(d, literal) == literal.type = "str" /\ d = literal.v

\* sum(1 for d in sim.recent_deaths if d == literal)
CountRecords(rd, literal) ==
    Cardinality({i \in Indices(rd) : RecordEquals(rd[i], literal)})

\* balance(), lines 48-50: the three counts
CrowdCount(rd) == CountRecords(rd, PyTuple(<<"crowd", "cull">>))
EnergyCount(rd) == CountRecords(rd, PyStr("energy"))
OldAgeCount(rd) == CountRecords(rd, PyStr("old_age"))

\* balance(), lines 51-55: the instantaneous ratios
DeathTotal(rd) == CrowdCount(rd) + EnergyCount(rd) + OldAgeCount(rd) + 1
CrowdRatio(rd) == (CrowdCount(rd) * Milli) \div DeathTotal(rd)
EnergyRatio(rd) == (EnergyCount(rd) * Milli) \div DeathTotal(rd)
OldAgeRatio(rd) == (OldAgeCount(rd) * Milli) \div DeathTotal(rd)

\* balance(), lines 58-61: value += 0.03 * (ratio - value)
EmaStep(value, ratio) == value + (3 * (ratio - value)) \div 100

UpdateEma(e, rd) ==
    [crowd   |-> EmaStep(e.crowd, CrowdRatio(rd)),
     energy  |-> EmaStep(e.energy, EnergyRatio(rd)),
     old_age |-> EmaStep(e.old_age, OldAgeRatio(rd))]

\* the neighbor factor as it would be with an upper clamp of 1.10
NeighborChangeWide(e) ==
    clamp(Milli + (e.crowd - TARGET_CROWD_RATIO) \div 10, 980, 1100)

\* balance(), lines 64-71: the four clamped feedback factors
NeighborChange(e) ==
    clamp(Milli + (e.crowd - TARGET_CROWD_RATIO) \div 10, 980, 1020)
FoodChange(e) ==
    clamp(Milli + (e.energy - TARGET_ENERGY_RATIO) \div 10, 980, 1020)
MoveCostChange(e) ==
    clamp(Milli + (e.crowd - TARGET_CROWD_RATIO) \div 20, 980, 1020)
PopLimitChange(e) ==
    clamp(Milli - (e.crowd - TARGET_CROWD_RATIO) \div 20, 950, 1050)

\* an idle cost that stays at the constructor's value
IdleCostFixed(move_cost) == (6 * Milli) \div 10

\* idle_cost = move_cost * 0.6
IdleCost(move_cost) == (move_cost * 6) \div 10

\* balance(), lines 73-77: proportional feedback, e the updated EMAs
Feedback(k, e) ==
    LET move_cost == clamp((k.move_cost * MoveCostChange(e)) \div Milli,
                           MOVE_MIN, MOVE_MAX)
    IN  [max_neighbors |-> clamp((k.max_neighbors * NeighborChange(e)) \div Milli,
                                 MAXN_MIN, MAXN_MAX),
         food_count    |-> clamp((k.food_count * FoodChange(e)) \div Milli,
                                 FOOD_MIN, FOOD_MAX),
         move_cost     |-> move_cost,
         idle_cost     |-> IdleCost(move_cost),
         max_pop       |-> clamp((k.max_pop * PopLimitChange(e)) \div Milli,
                                 POP_MIN, POP_MAX)]

Abs(v) == IF v < 0 THEN -v ELSE v

\* balance(), lines 80-86: is_deadlocked, on the knobs after feedback
\* (the tolerances 1.1, 5.1, 0.09 and 15 on integers and thousandths)
IsDeadlocked(k, e) ==
    /\ Abs(k.max_neighbors - MAXN_MIN) <= 1
    /\ Abs(k.food_count - FOOD_MIN) <= 5
    /\ Abs(k.move_cost - MOVE_MAX) < 90
    /\ Abs(k.max_pop - POP_MIN) < 15
    /\ e.crowd > 960

\* the deadlock breaker as it would be if it left the population cap alone
RecoveryKeepsCap(rn, rf) ==
    [max_neighbors |-> rn, food_count |-> rf, move_cost |-> MOVE_MIN,
     idle_cost |-> (MOVE_MIN * 6) \div 10, max_pop |-> POP_MIN]

\* balance(), lines 95-99: the knobs the deadlock breaker sets; rn and rf are the
\* draws random.randint(20, MAXN_MAX) and random.randint(FOOD_MAX // 2, FOOD_MAX)
Recovery(rn, rf) ==
    [max_neighbors |-> rn, food_count |-> rf, move_cost |-> MOVE_MIN,
     idle_cost |-> IdleCost(MOVE_MIN), max_pop |-> POP_MAX]

\* Simulation.cull_agents: sorted(self.agents, key=lambda a: -a.age)[:count] is
\* killed.  The sort is stable, so the slice holds every agent older than the
\* youngest age it reaches and, of the agents of that age, the first in list
\* order that fill the count.
CullAgents(ags, count, t) ==
    IF count <= 0 THEN ags
    ELSE LET Mark(a) == [a EXCEPT !.energy = -Milli, !.death_reason = "cull",
                                  !.cause_tick = t]
         IN  IF count >= Len(ags) THEN [i \in Indices(ags) |-> Mark(ags[i])]
             ELSE LET ages     == {ags[i].age : i \in Indices(ags)}
                      Older(b) == Cardinality({i \in Indices(ags) : ags[i].age > b})
                      Least(b) == Cardinality({i \in Indices(ags) : ags[i].age >= b})
                      youngest == CHOOSE b \in ages : Older(b) < count /\ count <= Least(b)
                      quota    == count - Older(youngest)
                      sameAge  == SelectSeq(IndexSeq(ags),
                                            LAMBDA i : ags[i].age = youngest)
                      last     == sameAge[quota]
                      killed(i) ==
                          \/ ags[i].age > youngest
                          \/ ags[i].age = youngest /\ i <= last
                  IN  [i \in Indices(ags) |-> IF killed(i) THEN Mark(ags[i]) ELSE ags[i]]

\* balance(), lines 114-116: the hard cull
HardCull(ags, k, t) ==
    IF Len(ags) > (k.max_pop * 13) \div 10
    THEN CullAgents(ags, Len(ags) - k.max_pop, t)
    ELSE ags

\* the over-population nudge as it would be without its two clamps
SoftControlUnclamped(ags, k) ==
    IF Len(ags) > k.max_pop
    THEN [k EXCEPT !.food_count = k.food_count - 50,
                   !.move_cost = k.move_cost + 50,
                   !.idle_cost = ((k.move_cost + 50) * 6) \div 10]
    ELSE k

\* balance(), lines 119-129: the nudge when the population is above the cap
SoftControl(ags, k) ==
    IF Len(ags) > k.max_pop
    THEN LET move_cost == Min(k.move_cost + 50, MOVE_MAX)
         IN  [k EXCEPT !.food_count = Max(k.food_count - 50, FOOD_MIN),
                       !.move_cost = move_cost,
                       !.idle_cost = IdleCost(move_cost)]
    ELSE k

\* a balancer without the low-population nudge
LowPopNoSupport(ags, k) == k

\* balance(), lines 133-143: the nudge when the population is below MIN_POP
LowPopSupport(ags, k) ==
    IF Len(ags) < MIN_POP
    THEN LET move_cost == Max(k.move_cost - 50, MOVE_MIN)
         IN  [k EXCEPT !.food_count = Min(k.food_count + 50, FOOD_MAX),
                       !.move_cost = move_cost,
                       !.idle_cost = IdleCost(move_cost)]
    ELSE k

\* a balancer without the data gate
GateNever(ags, rd) == FALSE

\* a gate that looks at the death records only
GateOnDataOnly(ags, rd) == Len(rd) < MIN_DEATH_RECORDS

\* balance(), line 44: the data gate
GateClosed(ags, rd) == Len(ags) = 0 \/ Len(rd) < MIN_DEATH_RECORDS

\* the draws of the deadlock breaker: random.randint(20, MAXN_MAX) and
\* random.randint(FOOD_MAX // 2, FOOD_MAX)
RecoveryNeighbors == 20 .. MAXN_MAX
RecoveryFood == {FOOD_MAX \div 2, (3 * FOOD_MAX) \div 4, FOOD_MAX}

\* balance(), lines 104-144: the limits are applied, then the two safety valves
Valves(ags, k, e, dl, break, t) ==
    LET ags1 == HardCull(ags, k, t)
        k3   == SoftControl(ags1, k)
        k4   == LowPopSupport(ags1, k3)
    IN  [agents |-> ags1, knobs |-> k4, ema |-> e, deadlock_ticks |-> dl,
         recovered |-> break]

\* PopulationBalancer.balance: the states one call can leave, one for each draw
\* of the deadlock breaker
Balance(ags, rd, k, e, dl, t) ==
    IF GateClosed(ags, rd)
    THEN {[agents |-> ags, knobs |-> k, ema |-> e, deadlock_ticks |-> dl,
           recovered |-> FALSE]}
    ELSE LET e1  == UpdateEma(e, rd)
             k1  == Feedback(k, e1)
             dl1 == IF IsDeadlocked(k1, e1) THEN dl + 1 ELSE 0
         IN  IF dl1 >= DEADLOCK_LIMIT
             THEN {Valves(ags, Recovery(rn, rf), [e1 EXCEPT !.crowd = 300], 0, TRUE, t) :
                     rn \in RecoveryNeighbors, rf \in RecoveryFood}
             ELSE {Valves(ags, k1, e1, dl1, FALSE, t)}

---------------------------------------------------------------------------
(* Simulation.run, lines 376-381: the periodic balancer call, end of the tick *)

BalanceAndAdvance ==
    /\ pc = "balance"
    /\ IF tick % 10 = 0
       THEN \E b \in Balance(agents, recent_deaths, knobs, ema, deadlock_ticks, tick) :
                  /\ agents' = b.agents
                  /\ knobs' = b.knobs
                  /\ ema' = b.ema
                  /\ deadlock_ticks' = b.deadlock_ticks
                  /\ recovered' = b.recovered
                  /\ calls' = calls + 1
       ELSE UNCHANGED <<agents, knobs, ema, deadlock_ticks, recovered, calls>>
    /\ tick' = tick + 1
    /\ pc' = "sense"
    /\ UNCHANGED <<probe, genome_stats>>
    /\ UNCHANGED <<food_set, food_zone_idx, trace_map, agent_grid, active_idx, dead,
                   new_agents, deaths, recent_deaths>>

Next ==
    \/ SpawnAndSense
    \/ DecideAndMove
    \/ EatAndStep
    \/ Cleanup
    \/ Reproduce
    \/ BalanceAndAdvance

Spec == Init /\ [][Next]_vars

---------------------------------------------------------------------------
(* Claims about the tick engine, checked under Spec *)

\* the agents, removed or kept by the last cleanup, whose cause was set in tick t
MarkedIn(s, t) == {i \in Indices(s) : s[i].cause_tick = t}

\* C1 (as claimed): right after the cleanup of a tick, the live set is the set
\* before the cleanup minus exactly the agents whose death cause was set in this
\* tick: every removed agent had its cause set in this tick, and no agent whose
\* cause was set in this tick is kept.
C1_CleanupRemovesThisTicksDead ==
    pc = "repro" =>
        /\ Len(agents) = (Len(agents) + Len(dead))
                           - Cardinality(MarkedIn(agents, tick))
                           - Cardinality(MarkedIn(dead, tick))
        /\ \A i \in Indices(dead) : dead[i].cause_tick = tick
        /\ \A i \in Indices(agents) : agents[i].cause_tick # tick

\* C2 (as claimed): after the move resolution of a tick no two agents of the
\* live set are on the same cell.
C2_NoSharedCellAfterMoves ==
    pc = "step" =>
        \A i, j \in Indices(agents) : i # j => Pos(agents[i]) # Pos(agents[j])

\* C3 (as claimed): every agent removed by the cleanup is recorded with a
\* non-null death cause, in the per-cause lists and in the recent-death buffer
\* (an agent that ran out of energy with cause 'energy').
C3_RemovedHaveCause ==
    /\ \A i \in Indices(recent_deaths) : recent_deaths[i] \in Causes
    /\ deaths[None] = <<>>
    /\ \A i \in Indices(dead) : dead[i].death_reason \in Causes

\* C4: an agent with cause 'energy' has energy <= 0; an agent with cause 'crowd'
\* or 'old_age' has negative energy, got the cause in the current tick and is in
\* the live set only until the cleanup of that tick; and step(), applied to any
\* agent of the live set, assigns 'energy' only at energy <= 0 and leaves the
\* energy negative whenever it assigns 'crowd' or 'old_age'.
C4_DeathCauseAndEnergy ==
    \A i \in Indices(agents) :
        LET a == agents[i]
            s == Step(a, knobs, tick)
        IN  /\ a.death_reason = "energy" => a.energy <= 0
            /\ a.death_reason \in {"crowd", "old_age"} =>
                  a.energy < 0 /\ a.cause_tick = tick /\ pc = "cleanup"
            /\ s.death_reason # a.death_reason =>
                  /\ s.death_reason = "energy" => s.energy <= 0
                  /\ s.death_reason \in {"crowd", "old_age"} => s.energy < 0

\* C4 witness: before a cleanup, an agent marked 'crowd' and an agent marked
\* 'old_age' in this tick.
C4_Witness ==
    /\ pc = "cleanup"
    /\ \E i \in Indices(agents) : agents[i].death_reason = "crowd"
    /\ \E i \in Indices(agents) : agents[i].death_reason = "old_age"

\* the spatial index and the batch as they would be without the agents that
\* have energy <= 0
LiveGrid(ags) ==
    [c \in Cells |-> SelectSeq(IndexSeq(ags),
                               LAMBDA i : Pos(ags[i]) = c /\ ags[i].energy > 0)]

\* C5 (as claimed): in the tick's sensing and decision phase an agent that had
\* energy <= 0 at the start of the tick is not in the spatial index, is not
\* counted by any agent's scan, runs no scan and is not in the decision batch.
C5_DeadExcludedFromSensing ==
    pc = "move" =>
        \A i \in Indices(agents) :
            agents[i].energy <= 0 =>
                /\ \A c \in Cells : \A n \in Indices(agent_grid[c]) :
                       agent_grid[c][n] # i
                /\ \A j \in Indices(agents) :
                       agents[j].sense_agents = ScanAgents(agents[j], LiveGrid(agents))
                /\ agents[i].scan_tick # tick
                /\ \A n \in Indices(active_idx) : active_idx[n] # i

\* C6: after the reproduction phase every child of the tick is on a cell that
\* holds no food and that no other agent of the live set, parent or child, is on.
C6_ChildCellsFree ==
    pc = "balance" =>
        LET n == Len(agents)
            m == Len(new_agents)
        IN  \A c \in (n - m + 1) .. n :
                /\ Pos(agents[c]) \notin food_set
                /\ \A j \in 1 .. n : j # c => Pos(agents[j]) # Pos(agents[c])

\* C6 witness: two children were placed in the same tick.
C6_Witness == pc = "balance" /\ Len(new_agents) >= 2

\* C7: in the reproduction phase an agent below the threshold is unchanged; an
\* agent's offspring counter grows by at most 1, and when it grows the agent
\* had energy >= the threshold and ends with the post-reproduction energy; an
\* agent that did not reproduce is unchanged, and if it was at or above the
\* threshold none of its adjacent cells qualifies; there is one child per
\* parent that reproduced, each with the post-reproduction energy.
C7_ReproductionThreshold ==
    [][pc = "repro" =>
        /\ \A i \in Indices(agents) :
              LET a == agents[i]
                  b == agents'[i]
              IN  /\ a.energy < ENERGY_TO_REPRODUCE => b = a
                  /\ b.offspring_count \in {a.offspring_count, a.offspring_count + 1}
                  /\ b.offspring_count = a.offspring_count + 1 =>
                        /\ a.energy >= ENERGY_TO_REPRODUCE
                        /\ b.energy = ENERGY_AFTER_REPRO
                  /\ b.offspring_count = a.offspring_count =>
                        /\ b = a
                        /\ a.energy >= ENERGY_TO_REPRODUCE =>
                              EmptyCells(a, Positions(agents'), food_set) = {}
        /\ Len(agents') = Len(agents) + Len(new_agents')
        /\ Len(new_agents') =
              Cardinality({i \in Indices(agents) :
                             agents'[i].offspring_count = agents[i].offspring_count + 1})
        /\ \A n \in Indices(new_agents') :
              /\ new_agents'[n].energy = ENERGY_AFTER_REPRO
              /\ agents'[Len(agents) + n] = new_agents'[n]
    ]_vars

\* C7 witness: after a reproduction phase, a parent at the post-reproduction
\* energy with one offspring, its child, and an agent at 119 that has none.
C7_Witness ==
    /\ pc = "balance"
    /\ Len(new_agents) = 1
    /\ \E i, j \in Indices(agents) :
          /\ agents[i].offspring_count = 1
          /\ agents[i].energy = ENERGY_AFTER_REPRO
          /\ agents[j].offspring_count = 0
          /\ agents[j].energy = ENERGY_TO_REPRODUCE - Milli

---------------------------------------------------------------------------
(* BalSpec: PopulationBalancer.balance on enumerated inputs.
   balance() reads the knobs, the three EMAs, its deadlock counter, the size of
   the live set and the recent-death buffer.  The first states enumerate them;
   between two calls the ticks of the run replace the live set and the buffer. *)

\* knob settings: as constructed, at the restrictive and at the generous ends
\* of the legal ranges
RestrictiveKnobs ==
    [max_neighbors |-> MAXN_MIN, food_count |-> FOOD_MIN, move_cost |-> MOVE_MAX,
     idle_cost |-> IdleCost(MOVE_MAX), max_pop |-> POP_MIN]
GenerousKnobs ==
    [max_neighbors |-> MAXN_MAX, food_count |-> FOOD_MAX, move_cost |-> MOVE_MIN,
     idle_cost |-> IdleCost(MOVE_MIN), max_pop |-> POP_MAX]
KnobInputs == {InitKnobs, RestrictiveKnobs, GenerousKnobs}

\* EMA values: 0, the target ratio, 1.0
EmaInputs ==
    { [crowd |-> c, energy |-> e, old_age |-> 0] :
        c \in {0, TARGET_CROWD_RATIO, Milli}, e \in {0, Milli} }

\* the deadlock counter: no deadlocked call yet, or DEADLOCK_LIMIT - 1 of them in a row
CounterInputs == {0, DEADLOCK_LIMIT - 1}

\* live sets after cleanup and reproduction: every agent has energy > 0; the
\* sizes lie on both sides of MIN_POP and of the caps, at 1.3 times the smallest
\* cap and beyond 1.3 times the larger ones
PopSizes == {0, 30, 260, 2001}
Population(n) ==
    [i \in 1 .. n |-> [NewAgent(0, 0, ENERGY_START, 1) EXCEPT !.age = (i * 7) % 5]]
PopInputs == {Population(n) : n \in PopSizes}

\* recent-death buffers: the causes run() records are 'crowd', 'old_age', 'cull'
\* and None
BufferInputs ==
    { Repeat("old_age", MIN_DEATH_RECORDS - 1),
      Repeat("crowd", MIN_DEATH_RECORDS),
      Repeat("crowd", 20) \o Repeat("cull", 10) \o Repeat("old_age", 15)
        \o Repeat(None, 5) }

BalInit ==
    /\ agents \in PopInputs
    /\ recent_deaths \in BufferInputs
    /\ knobs \in KnobInputs
    /\ ema \in EmaInputs
    /\ deadlock_ticks \in CounterInputs
    /\ tick = LateTick - 1
    /\ food_zone_idx = LateZoneIdx
    /\ food_set = {}
    /\ trace_map = EmptyTrace
    /\ agent_grid = [c \in Cells |-> <<>>]
    /\ active_idx = <<>>
    /\ dead = <<>>
    /\ new_agents = <<>>
    /\ deaths = InitDeaths
    /\ genome_stats = InitGenomeStats
    /\ recovered = FALSE
    /\ calls = 0
    /\ pc = "balance"
    /\ probe = NoProbe

\* run(), lines 376-377: self.balancer.balance() on a tick that is a multiple of 10
BalCall ==
    /\ pc = "balance"
    /\ calls < MaxCalls
    /\ \E b \in Balance(agents, recent_deaths, knobs, ema, deadlock_ticks, tick) :
              /\ agents' = b.agents
              /\ knobs' = b.knobs
              /\ ema' = b.ema
              /\ deadlock_ticks' = b.deadlock_ticks
              /\ recovered' = b.recovered
    /\ calls' = calls + 1
    /\ pc' = "ticks"
    /\ UNCHANGED <<probe, genome_stats>>
    /\ UNCHANGED <<food_set, tick, food_zone_idx, trace_map, agent_grid, active_idx,
                   dead, new_agents, deaths, recent_deaths>>

\* run(): the ten ticks up to the next balancer call, seen from the balancer:
\* cleanup and reproduction leave another live set without dead agents, the
\* bookkeeping another recent-death buffer
BalTicks ==
    /\ pc = "ticks"
    /\ agents' \in PopInputs
    /\ recent_deaths' \in BufferInputs
    /\ tick' = tick + 10
    /\ pc' = "balance"
    /\ UNCHANGED <<probe, genome_stats>>
    /\ UNCHANGED <<food_set, food_zone_idx, trace_map, agent_grid, active_idx, dead,
                   new_agents, deaths, knobs, ema, deadlock_ticks, recovered, calls>>

BalNext == BalCall \/ BalTicks

BalSpec == BalInit /\ [][BalNext]_vars

---------------------------------------------------------------------------
(* Claims about the balancer, checked under BalSpec *)

\* C8: after any sequence of balancer calls the four resource knobs are inside
\* their legal ranges: max-neighbor threshold in [8, 30], food target in
\* [300, 1200], move cost in [0.8, 2.5], population cap in [200, 2000].
C8_KnobsInLegalRanges ==
    /\ knobs.max_neighbors \in MAXN_MIN .. MAXN_MAX
    /\ knobs.food_count \in FOOD_MIN .. FOOD_MAX
    /\ knobs.move_cost \in MOVE_MIN .. MOVE_MAX
    /\ knobs.max_pop \in POP_MIN .. POP_MAX

\* C8 witness: a second call was the low-population nudge on knobs that the
\* deadlock breaker had set: food target and move cost stopped at their bounds.
C8_Witness ==
    /\ pc = "ticks"
    /\ calls = 2
    /\ Len(agents) < MIN_POP
    /\ knobs.food_count = FOOD_MAX
    /\ knobs.move_cost = MOVE_MIN
    /\ knobs.max_pop = POP_MAX

\* the call that reaches the deadlock threshold: the data gate is open, the
\* knobs are at their restrictive extremes and stay there under this call's
\* feedback, the crowd EMA of this call is above 0.96, and the DEADLOCK_LIMIT - 1
\* calls before it were counted
DeadlockCall ==
    /\ pc = "balance"
    /\ Len(agents) > 0
    /\ Len(recent_deaths) >= MIN_DEATH_RECORDS
    /\ knobs = RestrictiveKnobs
    /\ deadlock_ticks = DEADLOCK_LIMIT - 1
    /\ UpdateEma(ema, recent_deaths).crowd > 960
    /\ Feedback(knobs, UpdateEma(ema, recent_deaths)) = RestrictiveKnobs

\* what every call that reaches the threshold does
BreakerResets ==
    /\ deadlock_ticks' = 0
    /\ knobs'.max_neighbors >= 20
    /\ knobs'.max_pop = POP_MAX
    /\ ema'.crowd < 960
    /\ ema'.crowd < ema.crowd

NumberOf(rd, c) == Cardinality({i \in Indices(rd) : rd[i] = c})

\* C10 (as claimed): in a call that passes the data gate with a 'crowd' record
\* in the recent-death buffer, the instantaneous crowd ratio is > 0 and the
\* crowd EMA is folded with the number of 'crowd' records over the common total
\* (unless the deadlock breaker overwrites it).
C10_RatiosCountCauses ==
    [][(/\ pc = "balance"
        /\ Len(agents) > 0
        /\ Len(recent_deaths) >= MIN_DEATH_RECORDS
        /\ \E i \in Indices(recent_deaths) : recent_deaths[i] = "crowd") =>
          LET crowd == NumberOf(recent_deaths, "crowd")
              total == crowd + NumberOf(recent_deaths, "energy")
                         + NumberOf(recent_deaths, "old_age") + 1
          IN  /\ CrowdRatio(recent_deaths) > 0
              /\ recovered' \/ ema'.crowd = EmaStep(ema.crowd, (crowd * Milli) \div total)
    ]_vars

\* the agents of ags that cull_agents marked, and those with energy > 0
CulledIn(ags) == {i \in Indices(ags) : ags[i].death_reason = "cull"}
AliveIn(ags) == {i \in Indices(ags) : ags[i].energy > 0}

\* C11 (as claimed): in a call (here: one that passes the data gate) with a live
\* set of at least 1.3 times the population cap, exactly population - cap agents
\* are marked 'cull' with energy <= 0, no agent left with energy > 0 is older
\* than a culled one, and exactly cap agents are left with energy > 0.
C11_HardCullOldest ==
    [][(/\ pc = "balance"
        /\ Len(recent_deaths) >= MIN_DEATH_RECORDS
        /\ Len(agents) > 0
        /\ Len(agents) * 10 >= 13 * knobs'.max_pop) =>
          LET cap    == knobs'.max_pop
              culled == CulledIn(agents')
              alive  == AliveIn(agents')
          IN  /\ Cardinality(culled) = Len(agents) - cap
              /\ \A i \in culled : agents'[i].energy <= 0
              /\ \A c \in {agents'[i].age : i \in culled} :
                    \A a \in {agents'[i].age : i \in alive} : a <= c
              /\ Cardinality(alive) = cap
    ]_vars

\* C12 (as claimed): a call with a non-empty live set and fewer than
\* MIN_DEATH_RECORDS recent death records still runs the safety valves: a live set of at least 1.3 times the cap
\* is culled, one above the cap gets food target - 50 and move cost + 0.05, one
\* below MIN_POP gets food target + 50 and move cost - 0.05.
C12_ValvesOnEveryCall ==
    [][(pc = "balance" /\ Len(agents) > 0 /\ Len(recent_deaths) < MIN_DEATH_RECORDS) =>
          /\ Len(agents) * 10 >= 13 * knobs.max_pop => CulledIn(agents') # {}
          /\ (Len(agents) > knobs.max_pop /\ Len(agents) * 10 < 13 * knobs.max_pop) =>
                /\ knobs'.food_count = Max(knobs.food_count - 50, FOOD_MIN)
                /\ knobs'.move_cost = Min(knobs.move_cost + 50, MOVE_MAX)
          /\ Len(agents) < MIN_POP =>
                /\ knobs'.food_count = Min(knobs.food_count + 50, FOOD_MAX)
                /\ knobs'.move_cost = Max(knobs.move_cost - 50, MOVE_MIN)
    ]_vars

\* what the limits are before the valves of a call that passes the data gate:
\* the feedback's, or one of the deadlock breaker's draws
PreValveKnobs ==
    IF recovered'
    THEN {Recovery(rn, rf) : rn \in RecoveryNeighbors, rf \in RecoveryFood}
    ELSE {Feedback(knobs, UpdateEma(ema, recent_deaths))}

\* C12 (amended): on every call that passes the data gate (non-empty live set, at
\* least MIN_DEATH_RECORDS recent death records) the valves act on the limits
\* the call has just applied, whatever the EMA-driven adjustment or the
\* deadlock breaker did: a live set of more than 1.3 times the cap is culled,
\* one above the cap gets food target - 50 and move cost + 0.05, one below
\* MIN_POP gets food target + 50 and move cost - 0.05 (each clamped to its legal
\* range), and otherwise food target and move cost stay as applied.
C12_ValvesOnGatedCalls ==
    [][(pc = "balance" /\ Len(agents) > 0 /\ Len(recent_deaths) >= MIN_DEATH_RECORDS) =>
          \E k1 \in PreValveKnobs :
              /\ Len(agents) * 10 > 13 * k1.max_pop => CulledIn(agents') # {}
              /\ Len(agents) > k1.max_pop =>
                    /\ knobs'.food_count = Max(k1.food_count - 50, FOOD_MIN)
                    /\ knobs'.move_cost = Min(k1.move_cost + 50, MOVE_MAX)
              /\ Len(agents) < MIN_POP =>
                    /\ knobs'.food_count = Min(k1.food_count + 50, FOOD_MAX)
                    /\ knobs'.move_cost = Max(k1.move_cost - 50, MOVE_MIN)
              /\ (Len(agents) >= MIN_POP /\ Len(agents) <= k1.max_pop) =>
                    /\ knobs'.food_count = k1.food_count
                    /\ knobs'.move_cost = k1.move_cost
    ]_vars

\* a call that passed the data gate with a live set below MIN_POP has returned,
\* with the food target and the move cost one nudge or more inside their ranges
C12_Witness ==
    /\ pc = "ticks"
    /\ calls >= 1
    /\ ~recovered
    /\ Len(recent_deaths) >= MIN_DEATH_RECORDS
    /\ Len(agents) \in 1 .. MIN_POP - 1
    /\ knobs.food_count >= FOOD_MIN + 50
    /\ knobs.move_cost <= MOVE_MAX - 50

\* C13 (as claimed): in a call that passes the data gate and does not break a
\* deadlock, the knobs after the call are those of the feedback except for the
\* nudges: max-neighbor threshold and population cap are the feedback's; a call
\* that culls leaves food target and move cost as the feedback set them; and the
\* food target is lowered or the move cost raised only with a live set above
\* the cap and not beyond 1.3 times the cap.
C13_NudgeOnlyWithoutCull ==
    [][(/\ pc = "balance"
        /\ Len(agents) > 0
        /\ Len(recent_deaths) >= MIN_DEATH_RECORDS
        /\ ~recovered') =>
          LET k1 == Feedback(knobs, UpdateEma(ema, recent_deaths))
          IN  /\ knobs'.max_neighbors = k1.max_neighbors
              /\ knobs'.max_pop = k1.max_pop
              /\ CulledIn(agents') # {} =>
                    /\ knobs'.food_count = k1.food_count
                    /\ knobs'.move_cost = k1.move_cost
              /\ (knobs'.food_count < k1.food_count \/ knobs'.move_cost > k1.move_cost) =>
                    /\ Len(agents) > k1.max_pop
                    /\ Len(agents) * 10 <= 13 * k1.max_pop
    ]_vars

---------------------------------------------------------------------------
(* Positions *)

\* C14: in every state every agent of the live set, and every child placed in
\* the tick, stands on a cell of the world: 0 <= x < world_w, 0 <= y < world_h.
C14_PositionsInsideWorld ==
    /\ \A i \in Indices(agents) :
          /\ 0 <= agents[i].x /\ agents[i].x < world_w
          /\ 0 <= agents[i].y /\ agents[i].y < world_h
    /\ \A i \in Indices(new_agents) :
          /\ 0 <= new_agents[i].x /\ new_agents[i].x < world_w
          /\ 0 <= new_agents[i].y /\ new_agents[i].y < world_h

\* a tick in which an agent left its cell (the trace of the move is on the cell
\* it left) and a child was placed
C14_Witness ==
    /\ pc = "balance"
    /\ Len(new_agents) >= 1
    /\ \E c \in Cells : trace_map[c] = tick

---------------------------------------------------------------------------
(* Ownership of the resource knobs *)

\* C20: the five resource knobs and the three EMAs change only inside a
\* balancer call: every phase of a tick other than the balancer's leaves them
\* unchanged, the balancer is called (and knobs or EMAs change) only at the end
\* of a tick whose number is a multiple of 10, and a call with fewer than
\* MIN_DEATH_RECORDS recent death records or with an empty live set leaves
\* knobs, EMAs and the deadlock counter unchanged.
C20_KnobsChangeOnlyInBalancer ==
    [][/\ pc # "balance" => (knobs' = knobs /\ ema' = ema /\ calls' = calls)
       /\ (knobs' # knobs \/ ema' # ema \/ calls' # calls) =>
             (pc = "balance" /\ tick % 10 = 0)
       /\ (pc = "balance" /\ (Len(recent_deaths) < MIN_DEATH_RECORDS \/ Len(agents) = 0)) =>
             (knobs' = knobs /\ ema' = ema /\ deadlock_ticks' = deadlock_ticks)
    ]_vars

\* the tick after a balancer call that passed the data gate and changed the
\* knobs and the EMAs: its sensing phase has run
C20_Witness ==
    /\ pc = "move"
    /\ tick = DueTick + 1
    /\ calls = 1
    /\ knobs # InitKnobs
    /\ ema # InitEma

---------------------------------------------------------------------------
(* SenseSpec: AgentSenses.update on one agent, in a world of ProbeWorld x
   ProbeWorld cells that holds food *)

\* the simulation while one object is driven through its methods: constructed,
\* with no agents, not running
EngineAtRest ==
    /\ agents = <<>>
    /\ tick = 0
    /\ food_zone_idx = 0
    /\ food_set = {}
    /\ trace_map = EmptyTrace
    /\ agent_grid = [c \in Cells |-> <<>>]
    /\ active_idx = <<>>
    /\ dead = <<>>
    /\ new_agents = <<>>
    /\ deaths = InitDeaths
    /\ genome_stats = InitGenomeStats
    /\ recent_deaths = <<>>
    /\ knobs = InitKnobs
    /\ ema = InitEma
    /\ deadlock_ticks = 0
    /\ recovered = FALSE
    /\ calls = 0
    /\ pc = "probe"

\* food_*_dist = None after reset(); `dist or r` in _normalize_distances takes
\* None and 0 alike
NoDist == 0

\* the offsets (dx, dy) of the scan: range(-fr, fr + 1) twice
ScanOffsets(fr) == (-fr .. fr) \X (-fr .. fr)

\* update(), lines 50-72: the offsets whose clamped cell (tx, ty) is in food_grid
FoodHits(x, y, fr, food, w, h) ==
    { d \in ScanOffsets(fr) :
        <<clamp(x + d[1], 0, w - 1), clamp(y + d[2], 0, h - 1)>> \in food }

\* update(), lines 68-71: the hits passed on to _update_direction and
\* _update_distance
Directional(hits) == hits \ {<<0, 0>>}

\* _update_direction: the four counters
FoodRight(hits) ==
    Cardinality({d \in Directional(hits) : Abs(d[1]) >= Abs(d[2]) /\ d[1] > 0})
FoodLeft(hits) ==
    Cardinality({d \in Directional(hits) : Abs(d[1]) >= Abs(d[2]) /\ d[1] < 0})
FoodDown(hits) ==
    Cardinality({d \in Directional(hits) : Abs(d[2]) >= Abs(d[1]) /\ d[2] > 0})
FoodUp(hits) ==
    Cardinality({d \in Directional(hits) : Abs(d[2]) >= Abs(d[1]) /\ d[2] < 0})

\* _min_dist over the hits of one kind: the smallest distance, None without one
MinDist(dists) ==
    IF dists = {} THEN NoDist
    ELSE CHOOSE m \in dists : \A n \in dists : m <= n

\* _update_distance: the four raw distances, from the hits on the agent's axes
UpDist(hits)    == MinDist({Abs(d[2]) : d \in {e \in Directional(hits) : e[1] = 0 /\ e[2] < 0}})
DownDist(hits)  == MinDist({Abs(d[2]) : d \in {e \in Directional(hits) : e[1] = 0 /\ e[2] > 0}})
LeftDist(hits)  == MinDist({Abs(d[1]) : d \in {e \in Directional(hits) : e[2] = 0 /\ e[1] < 0}})
RightDist(hits) == MinDist({Abs(d[1]) : d \in {e \in Directional(hits) : e[2] = 0 /\ e[1] > 0}})

\* a normalisation that divides what it finds, None as 0
NormalizeNoDefault(dist, fr) == (dist * Milli) \div (fr + 1)

\* _normalize_distances: (dist or r) / r with r = food_radius + 1, in thousandths
NormalizeDistance(dist, fr) ==
    LET r == fr + 1
    IN  ((IF dist = NoDist THEN r ELSE dist) * Milli) \div r

\* AgentSenses.reset: the food fields (distances None)
ResetSenses(p) ==
    [p EXCEPT !.sense_food = 0,
              !.food_up = 0, !.food_down = 0, !.food_left = 0, !.food_right = 0,
              !.food_up_dist = NoDist, !.food_down_dist = NoDist,
              !.food_left_dist = NoDist, !.food_right_dist = NoDist]

\* AgentSenses.update: the food fields after the scan
UpdateSenses(p, w, h) ==
    LET hits == FoodHits(p.x, p.y, p.food_radius, p.food, w, h)
        fr   == p.food_radius
    IN  [ResetSenses(p) EXCEPT
            !.sense_food = Cardinality(hits),
            !.food_up = FoodUp(hits), !.food_down = FoodDown(hits),
            !.food_left = FoodLeft(hits), !.food_right = FoodRight(hits),
            !.food_up_dist = NormalizeDistance(UpDist(hits), fr),
            !.food_down_dist = NormalizeDistance(DownDist(hits), fr),
            !.food_left_dist = NormalizeDistance(LeftDist(hits), fr),
            !.food_right_dist = NormalizeDistance(RightDist(hits), fr)]

\* the side of the probe's world, and the most food units it holds
ProbeWorld == 8
MaxFood == 2

\* where the agent stands (inside, in a corner, on the right border), and the
\* cells that may hold food
SensePositions == {<<5, 5>>, <<0, 0>>, <<ProbeWorld - 1, 5>>}
FoodCandidates ==
    {<<5, 3>>, <<5, 4>>, <<5, 6>>, <<4, 5>>, <<6, 6>>, <<0, 0>>, <<0, 1>>,
     <<ProbeWorld - 1, 4>>}
FoodInputs == {f \in SUBSET FoodCandidates : Cardinality(f) <= MaxFood}

\* AgentSenses.__init__: the senses of a new agent, after reset()
NewSenses(pos, fr, food) ==
    ResetSenses([kind |-> "senses", x |-> pos[1], y |-> pos[2], food_radius |-> fr,
                 food |-> food, updated |-> FALSE,
                 sense_food |-> 0, food_up |-> 0, food_down |-> 0, food_left |-> 0,
                 food_right |-> 0, food_up_dist |-> NoDist, food_down_dist |-> NoDist,
                 food_left_dist |-> NoDist, food_right_dist |-> NoDist])

SenseInit ==
    /\ EngineAtRest
    /\ probe \in {NewSenses(pos, fr, food) :
                    pos \in SensePositions, fr \in StartRadii, food \in FoodInputs}

\* agent.sense(): AgentSenses.update(food_grid, agent_grid)
SensesUpdate ==
    /\ probe.kind = "senses"
    /\ ~probe.updated
    /\ probe' = [UpdateSenses(probe, ProbeWorld, ProbeWorld) EXCEPT !.updated = TRUE]
    /\ UNCHANGED engine_vars

\* between two scans food is eaten and spawned; the fields keep the last scan
FoodChanges ==
    /\ probe.kind = "senses"
    /\ probe.updated
    /\ \E food \in FoodInputs : probe' = [probe EXCEPT !.food = food, !.updated = FALSE]
    /\ UNCHANGED engine_vars

SenseNext == SensesUpdate \/ FoodChanges

SenseSpec == SenseInit /\ [][SenseNext]_vars

\* the scenario: agent at (5,5), food radius 2, one food unit at (5,3), scanned
Scenario ==
    /\ probe.kind = "senses"
    /\ probe.updated
    /\ probe.x = 5 /\ probe.y = 5 /\ probe.food_radius = 2
    /\ probe.food = {<<5, 3>>}

\* after a scan, a direction whose counter is 0 has normalised distance 1.0
NoFoodIsOne ==
    (probe.kind = "senses" /\ probe.updated) =>
        /\ probe.food_up = 0 => probe.food_up_dist = Milli
        /\ probe.food_down = 0 => probe.food_down_dist = Milli
        /\ probe.food_left = 0 => probe.food_left_dist = Milli
        /\ probe.food_right = 0 => probe.food_right_dist = Milli

\* C15 (as claimed): in the scenario the scan yields food_up_dist = 1/(radius+1)
\* = 1/3, food_up = 1 and the other three counters 0; and after any scan a
\* direction with no food seen has normalised distance 1.0.
C15_AsClaimed ==
    /\ Scenario =>
          /\ probe.food_up_dist = Milli \div (probe.food_radius + 1)
          /\ probe.food_up = 1
          /\ probe.food_down = 0 /\ probe.food_left = 0 /\ probe.food_right = 0
    /\ NoFoodIsOne

\* C15 (amended): in the scenario the scan yields food_up_dist = 2/(radius+1) =
\* 2/3 (the food is two cells away), food_up = 1 and the other three counters
\* 0; and after any scan a direction with no food seen has normalised distance
\* 1.0.
C15_ScenarioDistances ==
    /\ Scenario =>
          /\ probe.food_up_dist = (2 * Milli) \div (probe.food_radius + 1)
          /\ probe.food_up = 1
          /\ probe.food_down = 0 /\ probe.food_left = 0 /\ probe.food_right = 0
          /\ probe.food_down_dist = Milli
          /\ probe.food_left_dist = Milli
          /\ probe.food_right_dist = Milli
    /\ NoFoodIsOne

\* the scenario has been scanned
C15_Witness == Scenario /\ probe.sense_food = 1 /\ probe.food_up_dist < Milli

---------------------------------------------------------------------------
(* EncSpec: AgentBrain.get_inputs called again and again on one agent *)

\* src/config.py: the personalities
PERSONALITY_TYPES == {"explorer", "survivor", "feeder", "loner", "social"}

\* the length of the history window (the program: 20)
N_HISTORY == 2

\* the calls of get_inputs made on the agent: the window fills and overflows
MaxEncCalls == N_HISTORY + 2

\* AgentBrain._init_input_shape
input_keys ==
    << "sense_food", "sense_agents", "sense_friends", "sense_others", "avg_energy",
       "max_energy", "chemo_signal", "edge_distance_x", "edge_distance_y", "food_up",
       "food_down", "food_left", "food_right", "food_up_dist", "food_down_dist",
       "food_left_dist", "food_right_dist", "visited_here", "last_move_x",
       "last_move_y", "crowd_global", "energy_global", "old_age_global" >>
n_base_inputs == Len(input_keys)
n_inputs == n_base_inputs * (1 + N_HISTORY)

\* what senses and state hold at a call, in the order of input_keys and in
\* thousandths: a crowded well-fed agent, a lone agent next to food, an agent
\* that senses nothing
RawCrowded ==
    << 3000, 4000, 1000, 3000, 90000, 120000, 0, 500, 250, 1000,
       0, 0, 2000, 500, Milli, Milli, 250, Milli, 0,
       -Milli, 250, 100, 50 >>
RawLone ==
    << 1000, 1000, 1000, 0, 50000, 50000, 0, 0, 0, 0,
       1000, 0, 0, Milli, 250, Milli, Milli, 0, Milli,
       0, 0, 0, 0 >>
RawNothing ==
    << 0, 0, 0, 0, 0, 0, 0, 0, 0, 0,
       0, 0, 0, Milli, Milli, Milli, Milli, 0, 0,
       0, 0, 0, 0 >>
RawProfiles == {RawCrowded, RawLone, RawNothing}

\* get_inputs, lines 96-107: the divisions, by position in base_inputs (0-based
\* in the code)
Normalize(raw) ==
    [i \in 1 .. Len(raw) |->
        IF i - 1 \in 0 .. 3 THEN raw[i] \div 10
        ELSE IF i - 1 \in 4 .. 5 THEN raw[i] \div 200
        ELSE IF i - 1 = 6 THEN raw[i] \div 5
        ELSE IF i - 1 \in 9 .. 12 THEN raw[i] \div 5
        ELSE raw[i]]

\* flat_hist.extend(old) for every old in last_inputs
RECURSIVE Flatten(_)
Flatten(seqs) == IF seqs = <<>> THEN <<>> ELSE Head(seqs) \o Flatten(Tail(seqs))

\* get_inputs, lines 112-117: the history, padded with 0.0 up to
\* n_base_inputs * n_history entries
FlatHist(last_inputs) ==
    LET flat == Flatten(last_inputs)
    IN  flat \o [i \in 1 .. Max(0, n_base_inputs * N_HISTORY - Len(flat)) |-> 0]

\* a history that is never cut
HistoryUnbounded(last_inputs, base_inputs) == Append(last_inputs, base_inputs)

\* get_inputs, lines 122-124: the update of the history
UpdateHistory(last_inputs, base_inputs) ==
    LET appended == Append(last_inputs, base_inputs)
    IN  IF Len(appended) > N_HISTORY
        THEN SubSeq(appended, Len(appended) - N_HISTORY + 1, Len(appended))
        ELSE appended

\* boost = 1.2, in thousandths
Boost == 1200

\* an encoder without the personality bias
NoBias(inputs, personality) == inputs

\* get_inputs, lines 127-143: the bias on one entry (0-based index in the code)
PersonalityBias(inputs, personality) ==
    LET Times(idx, f) == [inputs EXCEPT ![idx + 1] = (inputs[idx + 1] * f) \div Milli]
    IN  IF personality = "explorer" THEN Times(13, Boost)
        ELSE IF personality = "survivor" THEN Times(4, Boost)
        ELSE IF personality = "feeder" THEN Times(0, Boost)
        ELSE IF personality = "loner" THEN Times(1, Boost)
        ELSE IF personality = "social" THEN Times(1, -Boost)
        ELSE inputs

\* AgentBrain.get_inputs: the brain after the call, with the vector it returned
\* and the values it read
GetInputsOf(p, raw) ==
    LET base_inputs == Normalize(raw)
        inputs      == base_inputs \o FlatHist(p.last_inputs)
    IN  [p EXCEPT !.last_inputs = UpdateHistory(p.last_inputs, base_inputs),
                  !.inputs = PersonalityBias(inputs, p.personality),
                  !.raw = raw,
                  !.n_calls = p.n_calls + 1]

\* AgentBrain.__init__: last_inputs = [], no vector returned yet
NewBrain(personality) ==
    [kind |-> "brain", personality |-> personality, last_inputs |-> <<>>,
     inputs |-> <<>>, raw |-> <<>>, n_calls |-> 0]

EncInit ==
    /\ EngineAtRest
    /\ probe \in {NewBrain(personality) : personality \in PERSONALITY_TYPES}

\* run(), the decision batch: a.get_inputs() once a tick
GetInputs ==
    /\ probe.kind = "brain"
    /\ probe.n_calls < MaxEncCalls
    /\ \E raw \in RawProfiles : probe' = GetInputsOf(probe, raw)
    /\ UNCHANGED engine_vars

EncNext == GetInputs

EncSpec == EncInit /\ [][EncNext]_vars

\* block b (0 the current values, 1.. the history) of an encoded vector
Block(inputs, b) == SubSeq(inputs, b * n_base_inputs + 1, (b + 1) * n_base_inputs)

\* C16: every call of the encoder returns a vector of n_base * (1 + N_HISTORY)
\* entries whatever the number of history entries; the blocks after the first
\* are the history entries stored before the call, oldest first, and every
\* entry after them is 0; the history after the call holds at most N_HISTORY
\* entries: the earlier ones without the oldest when full, then the new one.
C16_FixedLengthAndHistory ==
    [][(probe.kind = "brain" /\ probe'.n_calls = probe.n_calls + 1) =>
          LET old  == probe.last_inputs
              new  == probe'.last_inputs
              drop == Len(old) + 1 - Len(new)
          IN  /\ Len(probe'.inputs) = n_base_inputs * (1 + N_HISTORY)
              /\ \A b \in 1 .. Len(old) : Block(probe'.inputs, b) = old[b]
              /\ \A i \in n_base_inputs * (1 + Len(old)) + 1 .. Len(probe'.inputs) :
                    probe'.inputs[i] = 0
              /\ Len(new) <= N_HISTORY
              /\ Len(new) = Min(Len(old) + 1, N_HISTORY)
              /\ \A j \in 1 .. Len(new) - 1 : new[j] = old[j + drop]
              /\ Len(new[Len(new)]) = n_base_inputs
    ]_vars

\* the window has overflowed: more calls than N_HISTORY, a full history whose
\* oldest and newest entries differ
C16_Witness ==
    /\ probe.kind = "brain"
    /\ probe.n_calls = N_HISTORY + 2
    /\ Len(probe.last_inputs) = N_HISTORY
    /\ probe.last_inputs[1] # probe.last_inputs[N_HISTORY]
    /\ Len(probe.inputs) = n_inputs

\* the fixed normalisation constants, by feature
NormalizationConstants ==
    [sense_food |-> 10, sense_agents |-> 10, sense_friends |-> 10, sense_others |-> 10,
     avg_energy |-> 200, max_energy |-> 200, chemo_signal |-> 5,
     edge_distance_x |-> 1, edge_distance_y |-> 1,
     food_up |-> 5, food_down |-> 5, food_left |-> 5, food_right |-> 5,
     food_up_dist |-> 1, food_down_dist |-> 1, food_left_dist |-> 1,
     food_right_dist |-> 1, visited_here |-> 1, last_move_x |-> 1, last_move_y |-> 1,
     crowd_global |-> 1, energy_global |-> 1, old_age_global |-> 1]

\* the value read for entry i over its constant
Normalized(i) == probe.raw[i] \div NormalizationConstants[input_keys[i]]

\* the first call on a brain has returned: the history was empty
FirstCall == probe.kind = "brain" /\ probe.n_calls = 1

\* C17 (as claimed): after a call with empty history, for any personality, the
\* first n_base entries of the vector are the values read divided by their
\* normalisation constants, and all other entries are 0.
C17_AsClaimed ==
    FirstCall =>
        /\ \A i \in 1 .. n_base_inputs : probe.inputs[i] = Normalized(i)
        /\ \A i \in n_base_inputs + 1 .. Len(probe.inputs) : probe.inputs[i] = 0

\* the one feature a personality biases, and the factor in thousandths
BiasedFeature ==
    [explorer |-> "food_up_dist", survivor |-> "avg_energy", feeder |-> "sense_food",
     loner |-> "sense_agents", social |-> "sense_agents"]
BiasFactor ==
    [explorer |-> 1200, survivor |-> 1200, feeder |-> 1200, loner |-> 1200,
     social |-> -1200]

\* C17 (amended): after a call with empty history the first n_base entries of
\* the vector are the values read divided by their normalisation constants,
\* except the one entry the personality biases, which is that quotient times 1.2
\* (explorer: food_up_dist, survivor: avg_energy, feeder: sense_food, loner:
\* sense_agents) or times -1.2 (social: sense_agents); all other entries are 0.
C17_FirstBlockNormalized ==
    FirstCall =>
        /\ \A i \in 1 .. n_base_inputs :
              probe.inputs[i] =
                  IF input_keys[i] = BiasedFeature[probe.personality]
                  THEN (Normalized(i) * BiasFactor[probe.personality]) \div Milli
                  ELSE Normalized(i)
        /\ \A i \in n_base_inputs + 1 .. Len(probe.inputs) : probe.inputs[i] = 0

\* a social agent's first vector: the sense_agents entry is negative
C17_Witness ==
    /\ FirstCall
    /\ probe.personality = "social"
    /\ probe.inputs[2] < 0
    /\ Len(probe.inputs) = n_inputs

---------------------------------------------------------------------------
(* IdSpec: the identities of the agents that are created and removed *)

\* the largest id random.randint(0, 1_000_000) can draw (the program: 1000000),
\* the agents the constructor seeds and the most agents alive at once
MaxId == 2
IdSeeds == 2
MaxAlive == 4

\* AgentState.__init__: self.id = random.randint(0, 1_000_000)
IdRange == 0 .. MaxId

\* AgentState.__init__: parent_id = None
NoParent == -1

\* AgentState.__init__: the identity of a new agent, for the id drawn
NewIdentity(id) == [id |-> id, parent_id |-> NoParent]

\* AgentBody.reproduce: the child's identity: its own draw, then
\* child.parent_id = self.state.id
ChildIdentity(parent, id) == [NewIdentity(id) EXCEPT !.parent_id = parent.id]

\* Simulation.__init__: every agent draws its id on its own
IdInit ==
    /\ EngineAtRest
    /\ probe \in { [kind |-> "ids", pop |-> [i \in 1 .. IdSeeds |-> NewIdentity(ids[i])]] :
                     ids \in [1 .. IdSeeds -> IdRange] }

\* run(), lines 360-375: an agent reproduces, the child joins the live set
Birth ==
    /\ probe.kind = "ids"
    /\ Len(probe.pop) < MaxAlive
    /\ \E i \in Indices(probe.pop), id \in IdRange :
          probe' = [probe EXCEPT !.pop = Append(probe.pop, ChildIdentity(probe.pop[i], id))]
    /\ UNCHANGED engine_vars

\* run(), lines 350-357: the cleanup removes an agent
Death ==
    /\ probe.kind = "ids"
    /\ \E k \in Indices(probe.pop) :
          probe' = [probe EXCEPT !.pop =
                       SubSeq(probe.pop, 1, k - 1) \o SubSeq(probe.pop, k + 1, Len(probe.pop))]
    /\ UNCHANGED engine_vars

IdNext == Birth \/ Death

IdSpec == IdInit /\ [][IdNext]_vars

\* C18 (as claimed): the agents that exist, seeded or born, have pairwise
\* distinct ids; an agent keeps its id when another agent is born or removed;
\* a child's parent id is the id of an agent of the live set it was born into.
C18_UniqueImmutableIds ==
    [][probe'.kind = "ids" =>
          LET old == probe.pop
              new == probe'.pop
          IN  /\ \A i, j \in Indices(new) : i # j => new[i].id # new[j].id
              /\ Len(new) = Len(old) + 1 =>
                    /\ \A i \in Indices(old) : new[i] = old[i]
                    /\ \E i \in Indices(old) : new[Len(new)].parent_id = old[i].id
              /\ Len(new) = Len(old) - 1 =>
                    \E k \in Indices(old) :
                        /\ \A i \in 1 .. k - 1 : new[i] = old[i]
                        /\ \A i \in k .. Len(new) : new[i] = old[i + 1]
    ]_vars

---------------------------------------------------------------------------
(* MoveSpec: AgentBody.apply_move called on one agent with any action index *)

\* how far outside the valid list indices the action indices go, and the calls
\* made on the agent
ActionSlack == 2
MaxMoves == 3

\* the integers handed to apply_move
ActionInputs ==
    -(Len(directions) + ActionSlack) .. Len(directions) - 1 + ActionSlack

\* directions[action] on a Python list: indices -len .. len - 1 are valid, any
\* other raises IndexError
IndexInRange(action) == action \in -Len(directions) .. Len(directions) - 1

\* the cells other agents have claimed before the call
TakenInputs == {{}, {<<0, 0>>}}

\* an agent as constructed, no call made on it yet
BodyInit ==
    /\ EngineAtRest
    /\ probe \in { [kind |-> "body", agent |-> NewAgent(c[1], c[2], ENERGY_START, 1),
                    action |-> 0, raised |-> FALSE, n_calls |-> 0] : c \in Cells }

\* AgentBody.apply_move(action, ...): _decode_action is its first statement, so
\* an IndexError leaves the agent as it was
ApplyMoveCall ==
    /\ probe.kind = "body"
    /\ probe.n_calls < MaxMoves
    /\ \E action \in ActionInputs, taken \in TakenInputs :
          probe' = [probe EXCEPT
                       !.agent = IF IndexInRange(action)
                                 THEN ApplyMove(probe.agent, action, taken, InitKnobs)
                                 ELSE probe.agent,
                       !.action = action,
                       !.raised = ~IndexInRange(action),
                       !.n_calls = probe.n_calls + 1]
    /\ UNCHANGED engine_vars

MoveNext == ApplyMoveCall

MoveSpec == BodyInit /\ [][MoveNext]_vars

\* C19 (as claimed): a call with an action index outside {0, 1, 2, 3} fails
\* with an error and changes nothing of the agent.
C19_OutOfRangeActionFails ==
    [][(probe'.kind = "body" /\ probe'.n_calls = probe.n_calls + 1
          /\ probe'.action \notin Actions) =>
            (probe'.raised /\ probe'.agent = probe.agent)
    ]_vars

---------------------------------------------------------------------------
(* Idle cost *)

\* C21: in every state the idle cost is 0.6 times the move cost: in the first
\* state and after every path of the balancer (feedback, deadlock breaker,
\* over-population nudge, low-population nudge).  Both costs are held in
\* thousandths, so the idle cost is the product cut to a whole thousandth.
C21_IdleCostIsFraction ==
    /\ knobs.idle_cost * 10 <= knobs.move_cost * 6
    /\ knobs.move_cost * 6 < (knobs.idle_cost + 1) * 10

\* a balancer call has returned with a move cost that is none of the values
\* calls start from: the feedback or a nudge set it, and the idle cost with it
C21_Witness ==
    /\ pc = "ticks"
    /\ calls >= 1
    /\ knobs.move_cost \notin {InitKnobs.move_cost, MOVE_MIN, MOVE_MAX}
    /\ knobs.idle_cost # InitKnobs.idle_cost

---------------------------------------------------------------------------
(* Death evaluation *)

\* the cause the strict priority gives an agent of the given neighbour count,
\* age after aging and energy
CauseByPriority(count, age, energy) ==
    IF knobs.max_neighbors > 0 /\ count > knobs.max_neighbors THEN "crowd"
    ELSE IF age >= MAX_AGENT_AGE THEN "old_age"
    ELSE IF energy <= 0 THEN "energy"
    ELSE None

\* C23: an agent evaluated in the aging phase of a tick is one tick older and
\* has the cause the priority crowd, old age, energy gives it, none if it stays
\* alive; step(), applied to any agent without a cause, chooses by the same
\* priority; and outside the cleanup, which removes agents, an agent that has a
\* cause keeps that cause.
C23_DeathPriority ==
    [][/\ pc = "step" =>
             \A i \in Indices(agents) :
                 agents[i].energy > 0 =>
                     /\ agents'[i].age = agents[i].age + 1
                     /\ agents'[i].death_reason =
                            CauseByPriority(agents[i].sense_agents, agents'[i].age,
                                            agents'[i].energy)
       /\ \A i \in Indices(agents) :
             agents[i].death_reason = None =>
                 Step(agents[i], knobs, tick).death_reason =
                     CauseByPriority(agents[i].sense_agents, agents[i].age + 1,
                                     agents[i].energy)
       /\ pc # "cleanup" =>
             \A i \in Indices(agents) :
                 agents[i].death_reason # None =>
                     /\ i <= Len(agents')
                     /\ agents'[i].death_reason = agents[i].death_reason
    ]_vars

\* before a cleanup, an agent that was crowded and at the maximum age in this
\* tick carries 'crowd', next to an agent that has run out of energy
C23_Witness ==
    /\ pc = "cleanup"
    /\ \E i \in Indices(agents) :
          /\ agents[i].death_reason = "crowd"
          /\ agents[i].cause_tick = tick
          /\ agents[i].age >= MAX_AGENT_AGE
    /\ \E i \in Indices(agents) :
          agents[i].death_reason = None /\ agents[i].energy <= 0

---------------------------------------------------------------------------
(* Order of the phases of a tick *)

\* the phase that follows each phase: spatial index and sensing, decision batch
\* and moves, eating/aging/death evaluation, bookkeeping and cleanup,
\* reproduction, balancer
NextPhase ==
    [sense |-> "move", move |-> "step", step |-> "cleanup", cleanup |-> "repro",
     repro |-> "balance", balance |-> "sense"]

\* the agents a scan of agent i finds in the live set ags as it stands: one for
\* every offset of the window and every agent on the cell the offset lands on
SnapshotCount(ags, i) ==
    Cardinality({ p \in ScanOffsets(ags[i].food_radius) \X Indices(ags) :
                    /\ clamp(ags[i].x + p[1][1], 0, world_w - 1) = ags[p[2]].x
                    /\ clamp(ags[i].y + p[1][2], 0, world_h - 1) = ags[p[2]].y })

\* C26: the phases of a tick follow one another in the fixed order; in the
\* sensing phase every agent's neighbour count is taken from the positions of
\* the live set at the start of the tick, and no agent moves and no food is
\* eaten in that phase; the moves leave the counts as sensed; and the death
\* evaluation gives 'crowd' to exactly the evaluated agents whose count from
\* that snapshot exceeds the crowd limit.
C26_PhaseOrderAndSnapshot ==
    [][/\ pc' = NextPhase[pc]
       /\ pc = "sense" =>
             /\ \A i \in Indices(agents) :
                   /\ agents'[i].sense_agents = SnapshotCount(agents, i)
                   /\ Pos(agents'[i]) = Pos(agents[i])
                   /\ agents'[i].energy = agents[i].energy
             /\ Len(agents') = Len(agents)
             /\ tick % food_zone_duration # 0 => food_set \subseteq food_set'
       /\ pc = "move" =>
             \A i \in Indices(agents) : agents'[i].sense_agents = agents[i].sense_agents
       /\ pc = "step" =>
             \A i \in Indices(agents) :
                 /\ agents'[i].sense_agents = agents[i].sense_agents
                 /\ agents[i].energy > 0 =>
                       (agents'[i].death_reason = "crowd" <=>
                          (knobs.max_neighbors > 0
                             /\ agents[i].sense_agents > knobs.max_neighbors))
    ]_vars

\* before a cleanup: an agent left its cell in this tick, an agent died of
\* crowding in this tick, and an agent is alive
C26_Witness ==
    /\ pc = "cleanup"
    /\ \E c \in Cells : trace_map[c] = tick
    /\ \E i \in Indices(agents) :
          agents[i].death_reason = "crowd" /\ agents[i].cause_tick = tick
    /\ \E i \in Indices(agents) :
          agents[i].death_reason = None /\ agents[i].energy > 0

\* the other agents inside the scan window of agent i, each once
Neighbours(ags, i) ==
    { j \in Indices(ags) \ {i} :
        /\ Abs(ags[j].x - ags[i].x) <= ags[i].food_radius
        /\ Abs(ags[j].y - ags[i].y) <= ags[i].food_radius }

\* C27 (as claimed): after the sensing phase the agent count of every agent,
\* which the death evaluation compares with the crowd limit, is the number of
\* other agents inside its scan window, each counted once, the agent itself
\* not counted, wherever the agent stands (stated for live sets with one agent
\* to a cell).
C27_CountsNeighboursOnce ==
    (/\ pc = "move"
     /\ \A i, j \in Indices(agents) : i # j => Pos(agents[i]) # Pos(agents[j])) =>
        \A i \in Indices(agents) :
            agents[i].sense_agents = Cardinality(Neighbours(agents, i))


---------------------------------------------------------------------------
(* The tick engine late in a long run: CleanSpec starts the engine of Spec at
   the tick boundary after the balance() call of tick 1500, with no agent
   marked by it, the first agent in the corner (0, 0) and the recent-death
   buffer one record below its capacity. *)

\* the deaths on record at that boundary
LongRunDeaths == RECENT_DEATHS_MAXLEN - 1

CleanInit ==
    /\ agents \in DueAgents(AGENT_COUNT)
    /\ agents[1].x = 0 /\ agents[1].y = 0
    /\ tick = LateTick
    /\ food_zone_idx = LateZoneIdx
    /\ InitCommon
    /\ StatsAre(StatsAfter(LongRunDeaths))

CleanSpec == CleanInit /\ [][Next]_vars

\* the agents a cleanup removes, in live-set order
Removed == SelectSeq(agents, LAMBDA a : ~(a.energy > 0))

\* the entries the removed agents of one kind add to a list
AgesOf(ags) == [i \in 1 .. Len(ags) |-> ags[i].age]
TerminalOf(ags) == [i \in 1 .. Len(ags) |-> <<ags[i].age, ags[i].offspring_count>>]
ReasonsOf(ags) == [i \in 1 .. Len(ags) |-> ags[i].death_reason]
WithCause(ags, k) == SelectSeq(ags, LAMBDA a : a.death_reason = k)
WithGenome(ags, g) == SelectSeq(ags, LAMBDA a : GenomeKey(a) = g)

\* the last n entries of a list
LastN(q, n) == IF Len(q) <= n THEN q ELSE SubSeq(q, Len(q) - n + 1, Len(q))

\* the summed lengths of the lists of a death table under the given keys
RECURSIVE SumLens(_, _)
SumLens(d, keys) ==
    IF keys = {} THEN 0
    ELSE LET k == CHOOSE x \in keys : TRUE
         IN  Len(d[k]) + SumLens(d, keys \ {k})

\* the statistics agree with each other: 'all' is as long as the lists of the
\* causes together, and as long as the genome aggregates together
StatsAgree(d, g) ==
    /\ Len(d["all"]) = SumLens(d, DeathKeys \ {"all"})
    /\ Len(d["all"]) = SumLens(g, DOMAIN g)

---------------------------------------------------------------------------
(* utils.spawn_food, one loop iteration at a time: FoodSpec runs one call of
   Simulation._spawn_food on every zone of the world, with up to AGENT_COUNT
   cells taken by agents, food on other cells and a target scaled from the
   program's 300..1200 to 0..MaxTarget. *)

MaxTarget == 3

\* the error random.randint raises on an empty range
NoError == "none"

\* utils.spawn_food, line 57: the loop condition
SpawnLoops(p) ==
    Cardinality(p.food_set) < p.desired_count /\ p.tries < p.desired_count * 10

\* the loop body without the test of line 59
SpawnStepUnchecked(p, pos) ==
    [p EXCEPT !.food_set = @ \cup {pos}, !.tries = @ + 1]

\* utils.spawn_food, lines 58-62: the loop body with pos drawn
SpawnStep(p, pos) ==
    IF pos \in p.food_set \/ pos \in p.taken
    THEN [p EXCEPT !.tries = @ + 1]
    ELSE [p EXCEPT !.food_set = @ \cup {pos}, !.tries = @ + 1]

\* _spawn_food, lines 158-160: the call; start is the food at the call
SpawnCall(food, desired_count, zone, taken) ==
    [kind |-> "spawn", food_set |-> food, start |-> food,
     desired_count |-> desired_count, zone |-> zone, taken |-> taken,
     tries |-> 0, error |-> NoError, returned |-> FALSE]

FoodInit ==
    /\ EngineAtRest
    /\ \E idx \in 0 .. Len(food_zones) - 1, desired_count \in 0 .. MaxTarget,
          taken \in SUBSET Cells :
          /\ Cardinality(taken) <= AGENT_COUNT
          /\ \E food \in SUBSET (Cells \ taken) :
                probe = SpawnCall(food, desired_count, CurrentFoodZone(idx), taken)

\* one iteration of the loop; random_pos_in_zone raises on an empty zone
SpawnTry ==
    /\ probe.error = NoError /\ ~probe.returned
    /\ SpawnLoops(probe)
    /\ IF ZoneCells(probe.zone) = {}
       THEN probe' = [probe EXCEPT !.error = "ValueError"]
       ELSE \E pos \in ZoneCells(probe.zone) : probe' = SpawnStep(probe, pos)
    /\ UNCHANGED engine_vars

\* the loop condition fails: spawn_food returns
SpawnReturn ==
    /\ probe.error = NoError /\ ~probe.returned
    /\ ~SpawnLoops(probe)
    /\ probe' = [probe EXCEPT !.returned = TRUE]
    /\ UNCHANGED engine_vars

FoodNext == SpawnTry \/ SpawnReturn

FoodSpec == FoodInit /\ [][FoodNext]_vars

\* C30: every iteration of the search uses up one of at most 10 x target
\* attempts and the search raises no error, also when it gives up with fewer
\* units than the target; a unit is added only on a cell that held neither an
\* agent nor food, and only while the count is below the target, so the count
\* never rises above the target; the call returns as soon as the target or the
\* attempt limit is reached.
C30_BoundedFoodSearch ==
    [][ /\ probe'.error = NoError
        /\ probe'.tries <= probe'.desired_count * 10
        /\ ~probe'.returned => probe'.tries = probe.tries + 1
        /\ probe'.returned =>
              /\ probe'.food_set = probe.food_set
              /\ \/ Cardinality(probe.food_set) >= probe.desired_count
                 \/ probe.tries = probe.desired_count * 10
        /\ probe.food_set \subseteq probe'.food_set
        /\ Cardinality(probe'.food_set \ probe.food_set) <= 1
        /\ (probe'.food_set \ probe.food_set) \cap (probe.taken \cup probe.food_set) = {}
        /\ probe'.food_set # probe.food_set =>
              Cardinality(probe'.food_set) <= probe'.desired_count
        /\ probe'.taken = probe.taken ]_vars

\* a search that gave up: all 10 x target attempts used, a unit added, the
\* count still below the target and no error
C30_Witness ==
    /\ probe.returned
    /\ probe.error = NoError
    /\ probe.tries = probe.desired_count * 10
    /\ probe.food_set # probe.start
    /\ Cardinality(probe.food_set) < probe.desired_count


---------------------------------------------------------------------------
(* Simulation.run, lines 320-375, on agents with their recurrent state and
   movement memory: BatchSpec runs the decision batch of a tick one move at a
   time, then eat/step, cleanup and reproduction, for MaxBatchTicks ticks.
   Every Agent object carries obj, the identity of the object, and lstm, its
   recurrent state (lstm_hidden, lstm_cell); the output row i of the engine
   call of tick t is the pair (t, i). *)

MaxBatchTicks == 3

\* AgentState.__init__, line 42: deque(maxlen=10)
VISITED_MAXLEN == 10

\* AgentState.__init__: the recurrent state of a new agent (zeros)
InitLstm == <<-1, 0>>

\* row i (1-based) of h_new, c_new of the engine call of tick t
EngineRow(t, i) == <<t, i>>

\* AgentState.__init__: the fields of an agent the tick engine of Spec leaves out
WithMemory(a, obj) ==
    a @@ [obj |-> obj, lstm |-> InitLstm, visited_last_10 |-> <<>>,
          last_move |-> <<0, 0>>]

\* the vitals of the agents at the first tick boundary of BatchSpec: (energy,
\* death_reason, cause_tick)
BatchVitals ==
    { <<ENERGY_START, None, -1>>,
      <<(6 * Milli) \div 10, None, -1>>,                 \* one idle step from energy 0
      <<ENERGY_TO_REPRODUCE + 2 * Milli, None, -1>>,     \* found no cell for a child
      <<-Milli, "cull", LateTick - 1>> }                 \* culled at tick 1500

BatchAgents(count) ==
    { [i \in 1 .. count |->
          WithMemory([NewAgent(p[i][1], p[i][2], v[i][1], 1) EXCEPT
                         !.age = 100, !.death_reason = v[i][2],
                         !.cause_tick = v[i][3]], i)] :
        p \in [1 .. count -> Cells], v \in [1 .. count -> BatchVitals] }

\* the first agent starts in the corner (0, 0)
BatchInit ==
    /\ EngineAtRest
    /\ \E ags \in BatchAgents(AGENT_COUNT) :
          /\ Pos(ags[1]) = <<0, 0>>
          /\ probe = [kind |-> "batch", phase |-> "decide", agents |-> ags,
                      start |-> ags, before |-> ags, tick |-> LateTick,
                      first_tick |-> LateTick,
                      batch |-> <<>>, acts |-> <<>>, taken |-> {},
                      trace |-> EmptyTrace,
                      engine_calls |-> 0, next_obj |-> AGENT_COUNT + 1]

\* the loop of run() as it would be if it claimed no cell
ClaimNothing(taken, a) == taken

\* run(), line 345: taken.add((a.x, a.y))
Claim(taken, a) == taken \cup {Pos(a)}

\* AgentBody.apply_move on the whole AgentState
ApplyMoveState(a, action, hidden, taken, k) ==
    LET b == [ApplyMove(a, action, taken, k) EXCEPT !.lstm = hidden]
    IN  IF IsIdle(a, action, taken) THEN b
        ELSE [b EXCEPT !.visited_last_10 = DequeAppend(@, Pos(a), VISITED_MAXLEN),
                       !.last_move = DecodeAction(action)]

\* run(), lines 320-340: the batch is assembled; with a non-empty batch the
\* engine is called, taken is built and the trace map replaced
AssembleBatch ==
    /\ probe.kind = "batch" /\ probe.phase = "decide"
    /\ LET active == ActiveIdx(probe.agents)
       IN  probe' = IF active = <<>>
                    THEN [probe EXCEPT !.phase = "turnover", !.batch = active,
                                       !.acts = <<>>, !.start = probe.agents,
                                       !.before = probe.agents,
                                       !.engine_calls = 0]
                    ELSE [probe EXCEPT !.phase = "move", !.batch = active,
                                       !.acts = <<>>, !.start = probe.agents,
                                       !.before = probe.agents,
                                       !.engine_calls = 1,
                                       !.taken = Positions(probe.agents),
                                       !.trace = EmptyTrace]
    /\ UNCHANGED engine_vars

\* run(), lines 341-345: one iteration of the move loop
MoveOne ==
    /\ probe.kind = "batch" /\ probe.phase = "move"
    /\ \E action \in Actions :
          LET i     == Len(probe.acts) + 1
              idx   == probe.batch[i]
              a     == probe.agents[idx]
              moved == ApplyMoveState(a, action, EngineRow(probe.tick, i),
                                      probe.taken, InitKnobs)
          IN  probe' = [probe EXCEPT
                           !.agents = [@ EXCEPT ![idx] = moved],
                           !.before = probe.agents,
                           !.trace = ApplyTrace(@, a, action, probe.taken, probe.tick),
                           !.taken = Claim(@, moved),
                           !.acts = Append(@, action),
                           !.phase = IF i = Len(probe.batch) THEN "turnover"
                                     ELSE "move"]
    /\ UNCHANGED engine_vars

\* the children of a reproduction as Agent objects, numbered from obj on
NewObjects(kids, obj) ==
    [i \in 1 .. Len(kids) |-> WithMemory(kids[i], obj + i - 1)]

\* run(), lines 346-375: eat and step, cleanup, reproduction; then the next tick
Turnover ==
    /\ probe.kind = "batch" /\ probe.phase = "turnover"
    /\ probe.tick + 1 < probe.first_tick + MaxBatchTicks
    /\ LET stepped == EatStepAll([agents |-> probe.agents, food |-> food_set], 1,
                                 InitKnobs, probe.tick).agents
           alive   == Survivors(stepped)
       IN  \E st \in ReproAll([agents |-> alive, taken |-> Positions(alive),
                               kids |-> <<>>], 1, food_set) :
              probe' = [probe EXCEPT
                           !.agents = st.agents \o NewObjects(st.kids, probe.next_obj),
                           !.before = probe.agents,
                           !.next_obj = @ + Len(st.kids),
                           !.tick = @ + 1,
                           !.phase = "decide"]
    /\ UNCHANGED engine_vars

BatchNext == AssembleBatch \/ MoveOne \/ Turnover

BatchSpec == BatchInit /\ [][BatchNext]_vars


\* the clamped target of the agent as it stood, for the action of a move
TargetOf(a, action) ==
    <<clamp(a.x + directions[action + 1][1], 0, world_w - 1),
      clamp(a.y + directions[action + 1][2], 0, world_h - 1)>>

\* C22: in every tick the engine is called once when some agent has
\* energy > 0 and not at all otherwise; the batch is the agents with
\* energy > 0 in live-set order; the agent at batch index i gets row i of the
\* engine's output as its recurrent state and the action drawn for index i,
\* and no other agent is touched by that move; an agent with energy <= 0 at
\* the batch keeps its recurrent state and its position through the tick's
\* moves.
C22_OneCallPerTickBatch ==
    [][ probe.kind = "batch" =>
          /\ probe.phase = "decide" =>
                LET eligible == {i \in Indices(probe.agents) :
                                    probe.agents[i].energy > 0}
                    b == probe'.batch
                IN  /\ probe'.engine_calls = IF eligible # {} THEN 1 ELSE 0
                    /\ (eligible = {}) = (probe'.phase = "turnover")
                    /\ {b[n] : n \in Indices(b)} = eligible
                    /\ Len(b) = Cardinality(eligible)
                    /\ \A m, n \in Indices(b) : m < n => b[m] < b[n]
                    /\ probe'.agents = probe.agents
          /\ probe.phase # "decide" => probe'.engine_calls = probe.engine_calls
          /\ probe.phase = "move" =>
                LET i   == Len(probe.acts) + 1
                    idx == probe.batch[i]
                IN  /\ probe'.batch = probe.batch
                    /\ Len(probe'.acts) = i
                    /\ probe'.acts[i] \in Actions
                    /\ probe.agents[idx].energy > 0
                    /\ probe'.agents[idx].lstm = EngineRow(probe.tick, i)
                    /\ Pos(probe'.agents[idx]) \in
                          {Pos(probe.agents[idx]),
                           TargetOf(probe.agents[idx], probe'.acts[i])}
                    /\ \A j \in Indices(probe.agents) :
                          j # idx => probe'.agents[j] = probe.agents[j]
                    /\ probe'.phase = "turnover" =>
                          \A j \in Indices(probe.start) :
                             IF probe.start[j].energy > 0
                             THEN \E n \in Indices(probe.batch) :
                                     /\ probe.batch[n] = j
                                     /\ probe'.agents[j].lstm =
                                           EngineRow(probe.tick, n)
                             ELSE /\ probe'.agents[j].lstm = probe.start[j].lstm
                                  /\ Pos(probe'.agents[j]) = Pos(probe.start[j]) ]_vars

\* the moves of a tick are done with a batch of one: the first agent of the
\* live set has energy <= 0 and its first recurrent state, the second was
\* batch index 1 and holds row 1 of the one engine call
C22_Witness ==
    /\ probe.kind = "batch" /\ probe.phase = "turnover"
    /\ probe.engine_calls = 1
    /\ Len(probe.agents) = 2
    /\ probe.batch = <<2>>
    /\ probe.agents[1].energy <= 0
    /\ probe.agents[1].lstm = InitLstm
    /\ probe.agents[2].lstm = EngineRow(probe.tick, 1)
    /\ Pos(probe.agents[2]) # Pos(probe.start[2])


\* C24: a move resolution charges one of the two costs.  When the clamped
\* target is the agent's own cell or a claimed cell, the energy drops by the
\* idle cost and the position, the visited history, the last-move vector and
\* the trace map stay as they were; otherwise the energy drops by the move
\* cost, the position is the target, the vacated cell is appended to the
\* visited history and written to the trace map with the current tick.  In
\* both cases the recurrent state is the engine's output row.
C24_MoveChargesOneCost ==
    [][ (probe.kind = "batch" /\ probe.phase = "move") =>
          LET i      == Len(probe.acts) + 1
              a      == probe.agents[probe.batch[i]]
              b      == probe'.agents[probe.batch[i]]
              target == TargetOf(a, probe'.acts[i])
          IN  /\ b.lstm = EngineRow(probe.tick, i)
              /\ IF target = Pos(a) \/ target \in probe.taken
                 THEN /\ b.energy = a.energy - InitKnobs.idle_cost
                      /\ Pos(b) = Pos(a)
                      /\ b.visited_last_10 = a.visited_last_10
                      /\ b.last_move = a.last_move
                      /\ probe'.trace = probe.trace
                 ELSE /\ b.energy = a.energy - InitKnobs.move_cost
                      /\ Pos(b) = target
                      /\ b.visited_last_10 =
                            LastN(a.visited_last_10 \o <<Pos(a)>>, VISITED_MAXLEN)
                      /\ probe'.trace = [probe.trace EXCEPT ![Pos(a)] = probe.tick] ]_vars

\* both kinds of step in one tick: the first agent moved from its cell and
\* paid the move cost, the second chose the cell the first had claimed and
\* paid the idle cost
C24_Witness ==
    /\ probe.kind = "batch" /\ probe.phase = "turnover"
    /\ probe.batch = <<1, 2>>
    /\ Pos(probe.agents[1]) # Pos(probe.start[1])
    /\ probe.agents[1].energy = probe.start[1].energy - InitKnobs.move_cost
    /\ probe.agents[1].visited_last_10 # <<>>
    /\ TargetOf(probe.start[2], probe.acts[2]) = Pos(probe.agents[1])
    /\ Pos(probe.agents[2]) = Pos(probe.start[2])
    /\ Pos(probe.start[2]) # Pos(probe.agents[1])
    /\ probe.agents[2].energy = probe.start[2].energy - InitKnobs.idle_cost
    /\ probe.agents[2].lstm = EngineRow(probe.tick, 2)


\* the objects of a live set, in order
Objects(ags) == [i \in Indices(ags) |-> ags[i].obj]

\* the batch indices whose agent chose cell c, from where it stood at tick start
Choosers(p, c) ==
    {n \in Indices(p.batch) : TargetOf(p.start[p.batch[n]], p.acts[n]) = c}

\* the place of object o in a list of objects
PlaceOf(objs, o) == CHOOSE i \in Indices(objs) : objs[i] = o

\* C25: cells are claimed in the order of the live set as it stands at tick
\* start.  When the moves of a tick are done, of the agents that chose the same
\* cell, one that no agent stood on at tick start, the earliest in the live
\* set is on that cell and every later one has made an idle step where it
\* stood.  The live set keeps its order: the batch and the moves leave it as it
\* is, and between ticks the dead agents are removed, the others keep their
\* relative order and the children follow them at the end.
C25_ClaimsInLiveSetOrder ==
    [][ probe.kind = "batch" =>
          /\ (probe.phase = "move" /\ probe'.phase = "turnover") =>
                \A c \in Cells \ Positions(probe'.start) :
                   \A n \in Choosers(probe', c) :
                      LET j == probe'.batch[n]
                      IN  IF \A m \in Choosers(probe', c) : n <= m
                          THEN Pos(probe'.agents[j]) = c
                          ELSE /\ Pos(probe'.agents[j]) = Pos(probe'.start[j])
                               /\ probe'.agents[j].energy =
                                     probe'.start[j].energy - InitKnobs.idle_cost
          /\ probe.phase = "decide" =>
                /\ probe'.start = probe.agents
                /\ \A m, n \in Indices(probe'.batch) :
                      m < n => probe'.batch[m] < probe'.batch[n]
          /\ probe.phase # "turnover" =>
                Objects(probe'.agents) = Objects(probe.agents)
          /\ probe.phase = "turnover" =>
                LET old  == Objects(probe.agents)
                    new  == Objects(probe'.agents)
                    kept == {j \in Indices(new) :
                                \E i \in Indices(old) : old[i] = new[j]}
                IN  /\ \A i \in Indices(old) :
                          (\E j \in Indices(new) : new[j] = old[i])
                             = (probe.agents[i].energy > 0)
                    /\ \A j \in Indices(new) :
                          j \notin kept => \A i \in kept : i < j
                    /\ \A i, j \in kept :
                          i < j => PlaceOf(old, new[i]) < PlaceOf(old, new[j])
                    /\ \A i, j \in Indices(new) : i # j => new[i] # new[j] ]_vars

\* the moves of a later tick are done: the live set is the first agent and a
\* child that took the place of the removed second agent; both chose the same
\* free cell, the first agent is on it and the child made an idle step
C25_Witness ==
    /\ probe.kind = "batch" /\ probe.phase = "turnover"
    /\ probe.tick > probe.first_tick
    /\ Objects(probe.agents) = <<1, 3>>
    /\ probe.batch = <<1, 2>>
    /\ TargetOf(probe.start[1], probe.acts[1]) = TargetOf(probe.start[2], probe.acts[2])
    /\ TargetOf(probe.start[1], probe.acts[1]) \notin Positions(probe.start)
    /\ Pos(probe.agents[1]) = TargetOf(probe.start[1], probe.acts[1])
    /\ Pos(probe.agents[2]) = Pos(probe.start[2])


\* C28: the visited history of every agent holds at most VISITED_MAXLEN
\* positions and no position twice.
C28_VisitedDistinct ==
    probe.kind = "batch" =>
       \A i \in Indices(probe.agents) :
          LET v == probe.agents[i].visited_last_10
          IN  /\ Len(v) <= VISITED_MAXLEN
              /\ \A m, n \in Indices(v) : m # n => v[m] # v[n]


---------------------------------------------------------------------------
(* The trace map, the children, the threshold, extinction, food and ages *)

\* C31: an entry of the trace map is never lost: a cell that holds a tick
\* holds the same tick after every step of the engine, or the tick of the
\* step in which it was vacated again.
C31_TraceEntriesKept ==
    [][ \A c \in Cells :
           trace_map[c] # NoTrace => trace_map'[c] \in {trace_map[c], tick} ]_vars


---------------------------------------------------------------------------
(* AgentBody.reproduce on agents with their whole genome: GenSpec follows a
   line of descent for MaxGenerations reproductions.  The parent has lived
   (age, recurrent state, offspring) before it reproduces. *)

MaxGenerations == 2

\* config.py
MUTATION_RANGE == 16

\* the genome of a new agent: AgentState.__init__, lines 34-47
WithGenome3(a, color, agent_radius, personality) ==
    WithMemory(a, 0) @@ [color |-> color, agent_radius |-> agent_radius,
                         personality |-> personality]

\* Simulation.__init__, lines 76-85: seeded agents; the radii are
\* random.randint(0, 20), a channel of random_color() is in 0 .. 254
SeedGenomes ==
    { WithGenome3(NewAgent(0, 0, ENERGY_START, fr), col, ar, p) :
        fr \in {SENSOR_RADIUS_MIN, SENSOR_RADIUS_MAX},
        ar \in {SENSOR_RADIUS_MIN, 3, SENSOR_RADIUS_MAX},
        col \in {<<0, 128, 254>>, <<10, 250, 5>>},
        p \in {"explorer", "social"} }

\* the draws of one reproduce() call: random.randint(-1, 1) per radius,
\* random.randint(-MUTATION_RANGE, MUTATION_RANGE) per channel, and the
\* personality random_personality() returns when the personality mutates
RadiusDraws == -1 .. 1
ColorDraws ==
    { <<-MUTATION_RANGE, -MUTATION_RANGE, -MUTATION_RANGE>>,
      <<MUTATION_RANGE, MUTATION_RANGE, MUTATION_RANGE>>,
      <<-MUTATION_RANGE, 0, MUTATION_RANGE>>, <<1, -1, 0>> }

\* mutate_radius as it would be without the clamp
MutateRadiusUnclamped(value, d) == value + d

\* reproduce(), mutate_radius: clamp(value + random.randint(-1, 1), 0, 20)
MutateRadius(value, d) == clamp(value + d, SENSOR_RADIUS_MIN, SENSOR_RADIUS_MAX)

\* reproduce(), lines 119-122: clamp(c + random.randint(-16, 16), 0, 255)
MutateColor(color, d) == [i \in 1 .. 3 |-> clamp(color[i] + d[i], 0, 255)]

\* utils.mutate_personality: random_personality() or the parent's
MutatePersonality(parent, mutates, drawn) == IF mutates THEN drawn ELSE parent

\* AgentBody.reproduce, lines 124-133: the child, built by the constructor
ReproduceChild(a, dfr, dar, dcol, mutates, drawn) ==
    WithGenome3(NewAgent(a.x, a.y, ENERGY_AFTER_REPRO, MutateRadius(a.food_radius, dfr)),
                MutateColor(a.color, dcol),
                MutateRadius(a.agent_radius, dar),
                MutatePersonality(a.personality, mutates, drawn))

\* an agent after a tick of life: apply_move assigns the recurrent state,
\* step() adds 1 to the age
Lived(a, t) == [a EXCEPT !.lstm = EngineRow(t, 1), !.age = a.age + 1]

GenInit ==
    /\ EngineAtRest
    /\ \E a \in SeedGenomes :
          probe = [kind |-> "gen", parent |-> Lived(a, 0), child |-> a,
                   born |-> FALSE, generation |-> 0]

\* reproduce(): the child is built, the parent pays and counts it
ReproduceCall ==
    /\ probe.kind = "gen" /\ ~probe.born
    /\ probe.generation < MaxGenerations
    /\ \E dfr \in RadiusDraws, dar \in RadiusDraws, dcol \in ColorDraws,
          mutates \in BOOLEAN, drawn \in PERSONALITY_TYPES :
          probe' = [probe EXCEPT
                       !.child = ReproduceChild(probe.parent, dfr, dar, dcol,
                                                mutates, drawn),
                       !.parent = ParentAfter(probe.parent),
                       !.born = TRUE,
                       !.generation = @ + 1]
    /\ UNCHANGED engine_vars

\* the child lives a tick and is the parent of the next reproduction
GrowUp ==
    /\ probe.kind = "gen" /\ probe.born
    /\ probe' = [probe EXCEPT !.parent = Lived(probe.child, probe.generation),
                              !.born = FALSE]
    /\ UNCHANGED engine_vars

GenNext == ReproduceCall \/ GrowUp

GenSpec == GenInit /\ [][GenNext]_vars

\* the legal values of a genome
GenomeLegal(a) ==
    /\ a.food_radius \in SENSOR_RADIUS_MIN .. SENSOR_RADIUS_MAX
    /\ a.agent_radius \in SENSOR_RADIUS_MIN .. SENSOR_RADIUS_MAX
    /\ \A i \in 1 .. 3 : a.color[i] \in 0 .. 255
    /\ a.personality \in PERSONALITY_TYPES

Dist(a, b) == IF a >= b THEN a - b ELSE b - a

\* C32: the child of every reproduction has each radius within 1 of the
\* parent's and in [0, 20], each colour channel within MUTATION_RANGE of the
\* parent's and in [0, 255], a personality of the fixed set, age 0, no
\* offspring and the recurrent state of a new agent; every agent has a legal
\* genome.
C32_ChildGenome ==
    [][ /\ GenomeLegal(probe'.parent) /\ GenomeLegal(probe'.child)
        /\ ~probe.born =>
              LET p == probe.parent
                  c == probe'.child
              IN  /\ Dist(c.food_radius, p.food_radius) <= 1
                  /\ Dist(c.agent_radius, p.agent_radius) <= 1
                  /\ \A i \in 1 .. 3 : Dist(c.color[i], p.color[i]) <= MUTATION_RANGE
                  /\ c.age = 0
                  /\ c.offspring_count = 0
                  /\ c.lstm = InitLstm ]_vars

\* a second-generation child of a parent that has lived and reproduced: a
\* radius was held at the end of the range and a channel at the end of the
\* byte range
C32_Witness ==
    /\ probe.kind = "gen" /\ probe.born
    /\ probe.generation = 2
    /\ probe.parent.age > 0 /\ probe.parent.lstm # InitLstm
    /\ probe.parent.offspring_count = 1
    /\ probe.child.food_radius = SENSOR_RADIUS_MAX
    /\ probe.parent.food_radius = SENSOR_RADIUS_MAX
    /\ probe.child.color[1] = 0
    /\ probe.child.color[3] = 255
    /\ probe.child.personality # probe.parent.personality
    /\ probe.child.age = 0 /\ probe.child.lstm = InitLstm


\* C33: a balance() call that does not take the deadlock-breaker branch never
\* raises the max-neighbor threshold: the threshold after the call is at most
\* the threshold before it.
C33_ThresholdNeverRises ==
    [][ (pc = "balance" /\ ~recovered') =>
           knobs'.max_neighbors <= knobs.max_neighbors ]_vars

\* a call has passed the gate with the crowd EMA above its target, so that the
\* factor is at its upper clamp 1.02, without the deadlock breaker: the
\* threshold is the constructor's 15
C33_Witness ==
    /\ pc = "ticks" /\ calls >= 1 /\ ~recovered
    /\ ema.crowd > TARGET_CROWD_RATIO /\ ema.crowd < Milli
    /\ NeighborChange(ema) = 1020
    /\ knobs.max_neighbors = InitKnobs.max_neighbors


\* C34: extinction is absorbing.  From a state with an empty live set every
\* step of the engine leaves the live set empty and the knobs, the EMAs and
\* the deadlock counter as they are, and the batch assembled in a tick with an
\* empty live set is empty, so that the engine is not called.
C34_ExtinctionAbsorbing ==
    [][ agents = <<>> =>
           /\ agents' = <<>>
           /\ knobs' = knobs
           /\ ema' = ema
           /\ deadlock_ticks' = deadlock_ticks
           /\ new_agents' = <<>>
           /\ pc = "sense" => active_idx' = <<>>
           /\ pc = "move" => active_idx = <<>> /\ trace_map' = trace_map ]_vars

\* the tick after the live set died out in a tick whose balance() call had 50
\* death records to work with: the call was made and the batch is empty
C34_Witness ==
    /\ agents = <<>>
    /\ tick = DueTick + 1
    /\ pc = "step"
    /\ calls = 1
    /\ Len(recent_deaths) >= MIN_DEATH_RECORDS
    /\ active_idx = <<>>


\* the agents that eat in the eat/step phase: an agent with energy > 0 on a
\* food cell that no earlier agent with energy > 0 stands on
Eaters ==
    {i \in Indices(agents) :
        /\ agents[i].energy > 0
        /\ Pos(agents[i]) \in food_set
        /\ \A j \in 1 .. i - 1 :
              agents[j].energy > 0 => Pos(agents[j]) # Pos(agents[i])}

\* no agent with energy > 0 stands on food
NoneOnFood(ags, food) ==
    \A i \in Indices(ags) : ags[i].energy > 0 => Pos(ags[i]) \notin food

\* C35: at the end of every tick, after cleanup and reproduction, no agent
\* with energy > 0 stands on a cell that holds food.  Food is spawned on cells
\* without an agent only, a child is placed on a cell without food only; in the
\* eat/step phase each food unit under an agent with energy > 0 is removed and
\* gives ENERGY_PER_FOOD to exactly one agent (an agent that step() then kills
\* by crowd or age ends at energy -1).
C35_NoLiveAgentOnFood ==
    [][ /\ pc' \in {"balance", "sense"} => NoneOnFood(agents', food_set')
        /\ pc = "sense" =>
              (food_set' \ food_set) \cap Positions(agents) = {}
        /\ pc = "repro" =>
              \A i \in Indices(new_agents') : Pos(new_agents'[i]) \notin food_set
        /\ pc = "step" =>
              /\ food_set' \subseteq food_set
              /\ Cardinality(food_set \ food_set') = Cardinality(Eaters)
              /\ \A i \in Indices(agents) :
                    LET gain == IF i \in Eaters THEN ENERGY_PER_FOOD ELSE 0
                    IN  \/ agents'[i].energy = agents[i].energy + gain
                        \/ /\ agents'[i].energy = -Milli
                           /\ agents'[i].death_reason \in {"crowd", "old_age"}
                           /\ agents[i].energy > 0
              /\ NoneOnFood(agents', food_set') ]_vars

\* the end of a tick in which an agent moved onto food, ate and had a child:
\* food is left on another cell
C35_Witness ==
    /\ pc = "balance"
    /\ tick = LateTick
    /\ new_agents # <<>>
    /\ food_set # {}
    /\ \E i \in Indices(agents) : agents[i].offspring_count = 1


\* the agents of a live set that share their cell with another agent
Sharing(ags) ==
    {i \in Indices(ags) : \E j \in Indices(ags) : j # i /\ Pos(ags[j]) = Pos(ags[i])}

\* C36: in the move loop an agent never moves into a cell that an agent stood
\* on at the start of the tick, whether or not that agent has moved away since;
\* so when the moves of a tick are done no two agents have swapped cells, and
\* no move raises the number of agents that share a cell with another agent.
C36_VacatedCellsStayClaimed ==
    [][ (probe.kind = "batch" /\ probe.phase = "move") =>
          /\ \A i \in Indices(probe.agents) :
                Pos(probe'.agents[i]) # Pos(probe.agents[i]) =>
                   Pos(probe'.agents[i]) \notin Positions(probe.start)
          /\ Cardinality(Sharing(probe'.agents)) <= Cardinality(Sharing(probe.agents))
          /\ probe'.phase = "turnover" =>
                \A i, j \in Indices(probe.start) :
                   (i # j /\ Pos(probe.start[i]) # Pos(probe.start[j])) =>
                      ~ /\ Pos(probe'.agents[i]) = Pos(probe.start[j])
                        /\ Pos(probe'.agents[j]) = Pos(probe.start[i]) ]_vars

\* the moves of a tick are done: the first agent has left its cell, the second
\* chose the vacated cell and made an idle step where it stood
C36_Witness ==
    /\ probe.kind = "batch" /\ probe.phase = "turnover"
    /\ probe.batch = <<1, 2>>
    /\ Pos(probe.agents[1]) # Pos(probe.start[1])
    /\ TargetOf(probe.start[2], probe.acts[2]) = Pos(probe.start[1])
    /\ Pos(probe.start[2]) # Pos(probe.start[1])
    /\ Pos(probe.agents[2]) = Pos(probe.start[2])
    /\ probe.agents[2].energy = probe.start[2].energy - InitKnobs.idle_cost


---------------------------------------------------------------------------
(* The tick engine across a rotation of the food zone: ZoneSpec starts the
   engine of Spec at construction, and at tick 1999 with agents of food
   radius 1 and with food left in the zone of ticks 1000-1999, on cells
   without an agent. *)

ZoneInit ==
    /\ agents \in DueAgents(AGENT_COUNT)
    /\ \A i \in Indices(agents) : agents[i].food_radius = 1
    /\ tick = RotTick
    /\ food_zone_idx = RotZoneIdx
    /\ food_set \in SUBSET (ZoneCells(CurrentFoodZone(RotZoneIdx)) \ Positions(agents))
    /\ food_set # {}
    /\ probe = NoProbe
    /\ trace_map = EmptyTrace
    /\ agent_grid = [c \in Cells |-> <<>>]
    /\ active_idx = <<>>
    /\ dead = <<>>
    /\ new_agents = <<>>
    /\ knobs = InitKnobs
    /\ ema = InitEma
    /\ deadlock_ticks = 0
    /\ recovered = FALSE
    /\ calls = 0
    /\ pc = "sense"
    /\ StatsAre(StatsAfter(MIN_DEATH_RECORDS))

ZoneSpec == (SeedInit \/ ZoneInit) /\ [][Next]_vars

\* the cells of the active food zone
ActiveZone(idx) == ZoneCells(CurrentFoodZone(idx))

\* C37: every food position lies inside the active food zone and inside the
\* world.  The zone index changes only at the start of a tick whose number is
\* a multiple of food_zone_duration, where it advances by one cyclically and
\* the food of the old zone is dropped before food is spawned; in every other
\* tick the spawn keeps the food there is.
C37_FoodInsideActiveZone ==
    [][ /\ food_set \subseteq ActiveZone(food_zone_idx)
        /\ food_set' \subseteq ActiveZone(food_zone_idx') \cap Cells
        /\ IF pc = "sense" /\ tick % food_zone_duration = 0
           THEN /\ food_zone_idx' = (food_zone_idx + 1) % Len(food_zones)
                /\ food_set' \cap (food_set \ ActiveZone(food_zone_idx')) = {}
           ELSE /\ food_zone_idx' = food_zone_idx
                /\ pc = "sense" => food_set \subseteq food_set' ]_vars

\* after the rotation of tick 2000: the zone is the fourth, the food of the
\* third zone is gone and food lies in the new zone
C37_Witness ==
    /\ tick = RotTick + 1
    /\ pc = "move"
    /\ food_zone_idx = (RotZoneIdx + 1) % Len(food_zones)
    /\ food_set # {}
    /\ food_set \cap ActiveZone(RotZoneIdx) = {}

---------------------------------------------------------------------------
(* Age and energy of the live set, checked under Spec *)

\* C38: the cleanup of a tick leaves only agents with energy > 0 and an age
\* below MAX_AGENT_AGE, in their order and with their ages; the eat/step loop
\* adds exactly 1 to the age of every agent that has energy > 0 after moving
\* and leaves the age of the others; no other step of a tick changes the age
\* of an agent of the live set (reproduction appends children to it).
C38_LiveAgentsAgeByOne ==
    [][ /\ pc = "step" =>
              /\ Len(agents') = Len(agents)
              /\ \A i \in Indices(agents) :
                    agents'[i].age = agents[i].age
                                       + (IF agents[i].energy > 0 THEN 1 ELSE 0)
        /\ pc = "cleanup" =>
              /\ \A i \in Indices(agents') :
                    agents'[i].energy > 0 /\ agents'[i].age < MAX_AGENT_AGE
              /\ AgesOf(agents')
                    = AgesOf(SelectSeq(agents, LAMBDA a : a.energy > 0))
        /\ pc = "repro" =>
              /\ Len(agents') >= Len(agents)
              /\ SubSeq(AgesOf(agents'), 1, Len(agents)) = AgesOf(agents)
        /\ pc \in {"sense", "move", "balance"} =>
              AgesOf(agents') = AgesOf(agents) ]_vars

\* right after a cleanup that removed an agent that reached MAX_AGENT_AGE in
\* this tick and kept an agent that has aged
C38_Witness ==
    /\ pc = "repro"
    /\ \E i \in Indices(dead) : /\ dead[i].death_reason = "old_age"
                                 /\ dead[i].cause_tick = tick
                                 /\ dead[i].age = MAX_AGENT_AGE
    /\ \E i \in Indices(agents) : agents[i].age > 0

====
